---- MODULE Spec2Model ----
(***************************************************************************)
(* Jarvis: Telegram capture bot over an Asana client.                      *)
(*                                                                         *)
(* Names of sections and projects are modelled as sequences of characters  *)
(* so that str.endswith is computed, not assumed.  Dedup keys, gids and    *)
(* priorities are plain strings.  Python dicts are modelled as sequences   *)
(* of [k, v] entries with unique keys, in insertion order.                 *)
(***************************************************************************)
EXTENDS Integers, Sequences, FiniteSets, TLC

\* ------------------------------------------------------------------ bounds
MaxMessageId == 1      \* Telegram message ids 1..MaxMessageId (per chat)
MaxChatId == 2         \* chats 1..MaxChatId
MaxCalls == 2          \* client calls / handled updates per behaviour
MaxTabla == 2          \* entries of a table handed to the name resolver
MaxExceso == 5         \* characters a text or summary may exceed the limit by
MaxTareas == 2         \* tasks of the project when a digest is asked for

\* --------------------------------------------------------------- constants
None == "None"         \* Python None (never a gid, priority or key)
Nulo == <<"None">>     \* Python None where the value, if any, is a text

Hoy == <<"H", "o", "y">>
Semana == <<"S", "e", "m", "a", "n", "a">>
Backlog == <<"B", "a", "c", "k", "l", "o", "g">>
Hecho == <<"H", "e", "c", "h", "o">>
Speaker == <<"S", "p", "e", "a", "k", "e", "r">>
Nomadic == <<"N", "o", "m", "a", "d", "i", "c">>
Personal == <<"P", "e", "r", "s", "o", "n", "a", "l">>
Automatizacion == <<"A", "u", "t", "o", "m", "a", "t", "i", "z", "a", "c", "i", "o", "n">>
MarcaPersonal == <<"M", "a", "r", "c", "a", " ", "p", "e", "r", "s", "o", "n", "a", "l">>
Adquisicion == <<"A", "d", "q", "u", "i", "s", "i", "c", "i", "o", "n">>
Docencia == <<"D", "o", "c", "e", "n", "c", "i", "a">>
Investigar == <<"I", "n", "v", "e", "s", "t", "i", "g", "a", "r">>
SinClasificar == <<"M", "e", "n", "s", "a", "j", "e", " ", "s", "i", "n", " ", "c", "l", "a", "s", "i", "f", "i", "c", "a", "r">>

\* config.PROYECTOS_VALIDOS (accents dropped)
PROYECTOS_VALIDOS ==
    {Speaker, Automatizacion, MarcaPersonal, Nomadic, Adquisicion, Docencia,
     Personal}

\* "<glyph> name": a decorative prefix (an emoji) and a space before the name
Decorado(glifo, nombre) == <<glifo, " ">> \o nombre
\* "<glyph>name": the same without the space
Pegado(glifo, nombre) == <<glifo>> \o nombre

PRIORIDADES == {"alta", "media", "baja"}

\* the values of "tipo" the classifier prompt lists
TIPOS == {"tarea", "idea", "seguimiento", "referencia", "nota"}

PRIORIDAD_SECCION_MAP ==
    [p \in PRIORIDADES |->
        CASE p = "alta" -> Hoy
          [] p = "media" -> Semana
          [] p = "baja" -> Backlog]

FUENTES == {"telegram", "telegram_voz", "telegram_audio"}

\* ------------------------------------------------------- Python primitives
\* truthiness of an optional string value: None and "" are falsy
Truthy(v) == v # None /\ v # ""

\* truthiness of an optional text: None and the empty text are falsy
TruthyTexto(v) == v # Nulo /\ v # <<>>

\* ------------------------------------------------------------------- dates
\* the number of digits of a text taken for its value
NumeroPorLargo(s) == Len(s)

\* int() of a text of digits
RECURSIVE Numero(_)
Numero(s) ==
    LET Valor(c) ==
            CASE c = "0" -> 0 [] c = "1" -> 1 [] c = "2" -> 2 [] c = "3" -> 3
              [] c = "4" -> 4 [] c = "5" -> 5 [] c = "6" -> 6 [] c = "7" -> 7
              [] c = "8" -> 8 [] c = "9" -> 9
    IN  IF s = <<>> THEN 0
        ELSE 10 * Numero(SubSeq(s, 1, Len(s) - 1)) + Valor(s[Len(s)])

SonDigitos(s) ==
    \A i \in 1..Len(s) :
        s[i] \in {"0", "1", "2", "3", "4", "5", "6", "7", "8", "9"}

Bisiesto(y) == y % 4 = 0 /\ (y % 100 # 0 \/ y % 400 = 0)

DiasDelMes(y, m) ==
    IF m = 2 THEN (IF Bisiesto(y) THEN 29 ELSE 28)
    ELSE IF m \in {4, 6, 9, 11} THEN 30 ELSE 31

NoFecha == [ok |-> FALSE]

\* date.fromisoformat on a text: a date [y, m, d] for "YYYY-MM-DD" naming a
\* day of the calendar, ValueError (NoFecha) for the other texts used here
FechaISO(s) ==
    IF /\ Len(s) = 10
       /\ s[5] = "-" /\ s[8] = "-"
       /\ SonDigitos(SubSeq(s, 1, 4) \o SubSeq(s, 6, 7) \o SubSeq(s, 9, 10))
    THEN LET y == Numero(SubSeq(s, 1, 4))
             m == Numero(SubSeq(s, 6, 7))
             d == Numero(SubSeq(s, 9, 10))
         IN  IF y >= 1 /\ m \in 1..12 /\ d \in 1..DiasDelMes(y, m)
             THEN [ok |-> TRUE, y |-> y, m |-> m, d |-> d]
             ELSE NoFecha
    ELSE NoFecha

\* datetime.fromisoformat(raw.replace("Z", "+00:00")).date() on a timestamp
\* "YYYY-MM-DDTHH:MM:SSZ" or "YYYY-MM-DDTHH:MM:SS.fffZ": the date part, when
\* the date and the time of day are valid; NoFecha when the parse raises
FechaDeTimestamp(raw) ==
    IF /\ Len(raw) \in {20, 24}
       /\ raw[11] = "T" /\ raw[14] = ":" /\ raw[17] = ":" /\ raw[Len(raw)] = "Z"
       /\ SonDigitos(SubSeq(raw, 12, 13) \o SubSeq(raw, 15, 16) \o SubSeq(raw, 18, 19))
       /\ Numero(SubSeq(raw, 12, 13)) < 24
       /\ Numero(SubSeq(raw, 15, 16)) < 60
       /\ Numero(SubSeq(raw, 18, 19)) < 60
       /\ Len(raw) = 24 => raw[20] = "." /\ SonDigitos(SubSeq(raw, 21, 23))
    THEN FechaISO(SubSeq(raw, 1, 10))
    ELSE NoFecha

\* a <= b in place of a < b
AntesOIgual(a, b) ==
    \/ a.y < b.y
    \/ a.y = b.y /\ a.m < b.m
    \/ a.y = b.y /\ a.m = b.m /\ a.d <= b.d

\* a < b and a <= b on dates
Antes(a, b) ==
    \/ a.y < b.y
    \/ a.y = b.y /\ a.m < b.m
    \/ a.y = b.y /\ a.m = b.m /\ a.d < b.d

NoDespues(a, b) == a = b \/ Antes(a, b)

\* f - timedelta(days=1)
Ayer(f) ==
    IF f.d > 1 THEN [f EXCEPT !.d = f.d - 1]
    ELSE IF f.m > 1 THEN [f EXCEPT !.m = f.m - 1, !.d = DiasDelMes(f.y, f.m - 1)]
    ELSE [f EXCEPT !.y = f.y - 1, !.m = 12, !.d = 31]

\* one day more than asked for
MenosDiasDeMas(f, n) ==
    LET RECURSIVE Atras(_, _)
        Atras(g, k) == IF k = 0 THEN g ELSE Atras(Ayer(g), k - 1)
    IN  Atras(f, n + 1)

\* f - timedelta(days=n)
RECURSIVE MenosDias(_, _)
MenosDias(f, n) == IF n = 0 THEN f ELSE MenosDias(Ayer(f), n - 1)

\* -------------------------------------------------------------- str.endswith
\* a suffix test that skips the first character of the suffix
EndsWithSinCabeza(s, sufijo) ==
    /\ Len(s) >= Len(sufijo) - 1
    /\ SubSeq(s, Len(s) - Len(sufijo) + 2, Len(s)) = Tail(sufijo)

\* s.endswith(sufijo)
EndsWith(s, sufijo) ==
    /\ Len(s) >= Len(sufijo)
    /\ SubSeq(s, Len(s) - Len(sufijo) + 1, Len(s)) = sufijo

\* dict.get(k) on an insertion-ordered dict: the value, or None
HasKey(d, k) == \E i \in 1..Len(d) : d[i].k = k

DictGet(d, k) ==
    IF HasKey(d, k)
    THEN d[CHOOSE i \in 1..Len(d) : d[i].k = k].v
    ELSE None

\* d[k] = v: replaces the value in place, or appends a new entry
DictSet(d, k, v) ==
    IF HasKey(d, k)
    THEN [i \in 1..Len(d) |-> IF d[i].k = k THEN [k |-> k, v |-> v] ELSE d[i]]
    ELSE Append(d, [k |-> k, v |-> v])

\* clasificacion.get(campo, defecto) on a record that may lack the key
GetOr(c, campo, defecto) == IF campo \in DOMAIN c THEN c[campo] ELSE defecto

\* ------------------------------------------------------------ name lookup
\* for nombre, gid in tabla.items(): if nombre.endswith(" " + corto): return
RECURSIVE PrimerSufijo(_, _, _)
PrimerSufijo(tabla, i, corto) ==
    IF i > Len(tabla) THEN None
    ELSE IF EndsWith(tabla[i].k, <<" ">> \o corto) THEN tabla[i].v
    ELSE PrimerSufijo(tabla, i + 1, corto)

\* the suffix loop run before the exact lookup
SufijoPrimero(tabla, corto) ==
    LET s == PrimerSufijo(tabla, 1, corto)
    IN  IF Truthy(s) THEN s ELSE DictGet(tabla, corto)

\* exact lookup, then the suffix loop, then None
ResolverNombre(tabla, corto) ==
    LET gid == DictGet(tabla, corto)
    IN  IF Truthy(gid) THEN gid ELSE PrimerSufijo(tabla, 1, corto)

\* AsanaClient._resolver_seccion_gid_por_nombre_corto
ResolverSeccion(cache, nombre_corto) ==
    ResolverNombre(cache.secciones, nombre_corto)

\* the option lookup inlined in crear_tarea
ResolverOpcion(cache, proyecto) ==
    ResolverNombre(cache.opciones_proyecto, proyecto)

\* ---------------------------------------------------------------- discovery
\* for x in listado: tabla[x["name"]] = x["gid"]
RECURSIVE Volcar(_, _, _)
Volcar(listado, i, tabla) ==
    IF i > Len(listado) THEN tabla
    ELSE Volcar(listado, i + 1, DictSet(tabla, listado[i].name, listado[i].gid))

\* the i-th section / option the backend lists gets the i-th gid
Listado(nombres, prefijo) ==
    [i \in 1..Len(nombres) |->
        [name |-> nombres[i], gid |-> prefijo \o ToString(i)]]

\* every option, enabled or not
Todas(opciones) == opciones

\* the options with opcion.get("enabled", True)
Habilitadas(opciones) == SelectSeq(opciones, LAMBDA o : GetOr(o, "enabled", TRUE))

\* AsanaClient.discover_asana_ids, on a backend that answers.  backend.campo
\* is the gid of the custom field named "Proyecto" (None when the project has
\* none), backend.opciones its enum options, backend.me the gid that
\* get_user("me") returns (None when that request fails).
DiscoverAsanaIds(backend) ==
    [secciones |-> Volcar(backend.secciones, 1, <<>>),
     campo_proyecto_gid |-> backend.campo,
     opciones_proyecto |->
        IF backend.campo = None THEN <<>>
        ELSE Volcar(Habilitadas(backend.opciones), 1, <<>>),
     owner_user_gid |-> backend.me]

\* AsanaClient._descubrir_owner_user_gid(ids): the owner is set when
\* get_user("me") answers; a failure is logged and ids come back as they were
DescubrirOwnerUserGid(cache, backend) ==
    IF backend.me # None THEN ("owner_user_gid" :> backend.me) @@ cache ELSE cache

\* AsanaClient._load_or_discover_ids on a cache file that holds archivo
\* (<<>> when there is no file): what it returns or that it raises, and the
\* file it leaves.  json.dumps / json.loads give back the same dict of
\* strings and nulls.  descubreOk: the section and project requests answer.
\* descubre: discover_asana_ids was called, so those requests were issued.
LoadOrDiscoverIds(archivo, backend, descubreOk) ==
    IF archivo # <<>>
    THEN LET cargado == archivo[1]
         IN  IF ~Truthy(GetOr(cargado, "owner_user_gid", None))
             THEN LET migrado == DescubrirOwnerUserGid(cargado, backend)
                  IN  [raise |-> FALSE, ids |-> migrado, archivo |-> <<migrado>>,
                       descubre |-> FALSE]
             ELSE [raise |-> FALSE, ids |-> cargado, archivo |-> archivo,
                   descubre |-> FALSE]
    ELSE IF descubreOk
         THEN [raise |-> FALSE, ids |-> DiscoverAsanaIds(backend),
               archivo |-> <<DiscoverAsanaIds(backend)>>, descubre |-> TRUE]
         ELSE [raise |-> TRUE, ids |-> <<>>, archivo |-> <<>>, descubre |-> TRUE]

\* -------------------------------------------------------------- dedup ledger
Claves(ledger) == {ledger[i] : i \in 1..Len(ledger)}

\* a ledger check that never finds the key
NuncaProcesado(ledger, dedup_id) == FALSE

\* AsanaClient._ya_procesado
YaProcesado(ledger, dedup_id) == dedup_id \in Claves(ledger)

\* a mark that writes nothing
MarcaPerdida(ledger, dedup_id) == ledger

\* a mark that writes a ledger holding the new key alone
MarcaSobrescribe(ledger, dedup_id) == <<dedup_id>>

\* AsanaClient._init_procesados: "[]" is written when there is no file; the
\* first construction left one, so a later construction finds it
InitProcesados(ledger) == ledger

\* AsanaClient._marcar_procesado
MarcarProcesado(ledger, dedup_id) == Append(ledger, dedup_id)

\* f"{fuente}_{message_id}"
DedupId(fuente, message_id) == fuente \o "_" \o message_id

\* ---------------------------------------------------------------- crear_tarea
\* every priority goes to "Hoy" unless the table says otherwise
SeccionHoyPorDefecto(clasificacion) ==
    LET p == GetOr(clasificacion, "prioridad", "media")
    IN  IF p \in DOMAIN PRIORIDAD_SECCION_MAP
        THEN PRIORIDAD_SECCION_MAP[p] ELSE Hoy

\* PRIORIDAD_SECCION_MAP.get(clasificacion.get("prioridad", "media"), "Semana")
SeccionPorPrioridad(clasificacion) ==
    LET p == GetOr(clasificacion, "prioridad", "media")
    IN  IF p \in DOMAIN PRIORIDAD_SECCION_MAP
        THEN PRIORIDAD_SECCION_MAP[p] ELSE Semana

\* {"alta": red, "media": yellow, "baja": green}.get(prioridad, white)
EmojiPrioridad(clasificacion) ==
    LET p == GetOr(clasificacion, "prioridad", None)
    IN  CASE p = "alta" -> "rojo"
          [] p = "media" -> "amarillo"
          [] p = "baja" -> "verde"
          [] OTHER -> "blanco"

\* the notes template, one entry per line, in the template's order
Notas(texto, clasificacion, fuente) ==
    <<[etiqueta |-> "Fuente", valor |-> fuente],
      [etiqueta |-> "Tipo", valor |-> GetOr(clasificacion, "tipo", "nota")],
      [etiqueta |-> "Prioridad",
       valor |-> <<EmojiPrioridad(clasificacion),
                   GetOr(clasificacion, "prioridad", "media")>>],
      [etiqueta |-> "Proyecto",
       valor |-> GetOr(clasificacion, "proyecto", Personal)],
      [etiqueta |-> "Texto original", valor |-> texto]>>

\* the f-string of the notes as its lines (str.splitlines): "Fuente: ..",
\* "Tipo: ..", "Prioridad: <glyph> ..", "Proyecto: ..", "", "---", "",
\* "Texto original:", the text.  The source, the type, the glyph and the
\* priority are one symbol each; the project and the text are spelled out.
LineasDeNotas(notas) ==
    <<<<"F", "u", "e", "n", "t", "e", ":", " ", notas[1].valor>>,
      <<"T", "i", "p", "o", ":", " ", notas[2].valor>>,
      <<"P", "r", "i", "o", "r", "i", "d", "a", "d", ":", " ",
        notas[3].valor[1], " ", notas[3].valor[2]>>,
      <<"P", "r", "o", "y", "e", "c", "t", "o", ":", " ">> \o notas[4].valor,
      <<>>, <<"-", "-", "-">>, <<>>,
      <<"T", "e", "x", "t", "o", " ", "o", "r", "i", "g", "i", "n", "a", "l", ":">>,
      notas[5].valor>>

\* the custom fields always carry a field, with whatever the lookup gave
CustomFieldsSinComprobar(cache, clasificacion) ==
    <<[k |-> cache.campo_proyecto_gid,
       v |-> ResolverOpcion(cache, GetOr(clasificacion, "proyecto", Personal))]>>

\* custom_fields: {campo_gid: opcion_gid} when both are found, else {}
CustomFields(cache, clasificacion) ==
    LET campo_gid == cache.campo_proyecto_gid
        opcion_gid == ResolverOpcion(cache, GetOr(clasificacion, "proyecto", Personal))
    IN  IF Truthy(campo_gid) /\ Truthy(opcion_gid)
        THEN <<[k |-> campo_gid, v |-> opcion_gid]>>
        ELSE <<>>

LIMITE_NOMBRE == 80

\* s[:n]
Prefijo(s, n) == SubSeq(s, 1, IF Len(s) < n THEN Len(s) ELSE n)

\* task_data of the create_task request; assignee and due_on are keys only
\* when the value is truthy
TaskData(cache, texto, clasificacion, fuente) ==
    LET base == [name |-> GetOr(clasificacion, "resumen", Prefijo(texto, LIMITE_NOMBRE)),
                 notes |-> Notas(texto, clasificacion, fuente),
                 custom_fields |-> CustomFields(cache, clasificacion)]
        owner_gid == cache.owner_user_gid
        due_date == GetOr(clasificacion, "due_date", Nulo)
        conOwner == IF Truthy(owner_gid) THEN base @@ ("assignee" :> owner_gid) ELSE base
    IN  IF TruthyTexto(due_date) THEN conOwner @@ ("due_on" :> due_date) ELSE conOwner

\* the steps of the try block, with a failed create_task requested again
PasosReintento(seccion_gid, createOk, addOk) ==
    IF ~createOk THEN <<[op |-> "create_task", ok |-> FALSE],
                        [op |-> "create_task", ok |-> FALSE]>>
    ELSE IF Truthy(seccion_gid)
         THEN IF addOk
              THEN <<[op |-> "create_task", ok |-> TRUE],
                     [op |-> "add_task_for_section", ok |-> TRUE],
                     [op |-> "marcar_procesado", ok |-> TRUE]>>
              ELSE <<[op |-> "create_task", ok |-> TRUE],
                     [op |-> "add_task_for_section", ok |-> FALSE]>>
         ELSE <<[op |-> "create_task", ok |-> TRUE],
                [op |-> "marcar_procesado", ok |-> TRUE]>>

\* the steps of the try block, with the key marked before the section move
PasosMarcaAntes(seccion_gid, createOk, addOk) ==
    IF ~createOk THEN <<[op |-> "create_task", ok |-> FALSE]>>
    ELSE IF Truthy(seccion_gid)
         THEN <<[op |-> "create_task", ok |-> TRUE],
                [op |-> "marcar_procesado", ok |-> TRUE],
                [op |-> "add_task_for_section", ok |-> addOk]>>
         ELSE <<[op |-> "create_task", ok |-> TRUE],
                [op |-> "marcar_procesado", ok |-> TRUE]>>

\* the steps of the try block, with the move requested whatever seccion_gid is
PasosMueveSiempre(seccion_gid, createOk, addOk) ==
    IF ~createOk THEN <<[op |-> "create_task", ok |-> FALSE]>>
    ELSE IF addOk
         THEN <<[op |-> "create_task", ok |-> TRUE],
                [op |-> "add_task_for_section", ok |-> TRUE],
                [op |-> "marcar_procesado", ok |-> TRUE]>>
         ELSE <<[op |-> "create_task", ok |-> TRUE],
                [op |-> "add_task_for_section", ok |-> FALSE]>>

\* the steps of the try block, with the key marked although create_task
\* failed
PasosMarcaSinCrear(seccion_gid, createOk, addOk) ==
    IF ~createOk THEN <<[op |-> "create_task", ok |-> FALSE],
                        [op |-> "marcar_procesado", ok |-> TRUE]>>
    ELSE <<[op |-> "create_task", ok |-> TRUE],
           [op |-> "marcar_procesado", ok |-> TRUE]>>

\* the steps the try block of crear_tarea takes, in order, up to and including
\* the first request that raises: create_task; add_task_for_section when the
\* section resolved; _marcar_procesado
Pasos(seccion_gid, createOk, addOk) ==
    IF ~createOk THEN <<[op |-> "create_task", ok |-> FALSE]>>
    ELSE IF Truthy(seccion_gid)
         THEN IF addOk
              THEN <<[op |-> "create_task", ok |-> TRUE],
                     [op |-> "add_task_for_section", ok |-> TRUE],
                     [op |-> "marcar_procesado", ok |-> TRUE]>>
              ELSE <<[op |-> "create_task", ok |-> TRUE],
                     [op |-> "add_task_for_section", ok |-> FALSE]>>
         ELSE <<[op |-> "create_task", ok |-> TRUE],
                [op |-> "marcar_procesado", ok |-> TRUE]>>

Hace(pasos, op, ok) == \E i \in 1..Len(pasos) : pasos[i].op = op /\ pasos[i].ok = ok

Cuenta(pasos, op) == Cardinality({i \in 1..Len(pasos) : pasos[i].op = op})

\* ------------------------------------------------------------------- state
VARIABLES
    backend,      \* what the Asana project holds: sections, field, options, me
    ids,          \* AsanaClient.ids, the identifier cache in memory
    tareas,       \* the backend's tasks, in creation order
    procesados,   \* content of PROCESADOS_FILE, a JSON array of keys
    ultima,       \* the last client call: its arguments, steps and outcome
    exitosas,     \* history: keys of the crear_tarea calls that returned a task
    update,       \* the last update a bot handler handled, and its reply
    capturados,   \* history: messages whose handler got a task back
    chat_id_file, \* content of CHAT_ID_FILE: <<>> when absent, else <<chat_id>>
    resuelto,     \* the last name resolution: table, short name, answer
    llamadas,     \* calls made so far
    ids_file,     \* content of ASANA_IDS_FILE: <<>> when absent, else <<ids>>
    clasificada,  \* the last clasificar_mensaje call: text, answer, result
    digest,       \* the last obtener_resumen_semanal call and its result
    done,         \* the /done conversation: state, user_data, last reply
    hilos         \* two crear_tarea calls in progress, one per client instance

vars == <<backend, ids, tareas, procesados, ultima, exitosas, update,
          capturados, chat_id_file, resuelto, llamadas, ids_file, clasificada,
          digest, done, hilos>>

\* ------------------------------------------------------------------ inputs
Glifo == "#"

\* section listings of the project, as the backend returns them
SeccionesBackend ==
    {<<Decorado(Glifo, Hoy), Decorado(Glifo, Semana), Decorado(Glifo, Backlog)>>,
     <<Pegado(Glifo, Hoy), Semana, Hecho>>}

\* enabled options of the "Proyecto" field
OpcionesBackend == {<<Decorado(Glifo, Speaker), Personal>>}

Backends ==
    {[secciones |-> Listado(s, "s"), campo |-> "f1",
      opciones |-> Listado(o, "o"), me |-> "u1"] :
        s \in SeccionesBackend, o \in OpcionesBackend}

Textos == {<<"h", "o", "l", "a">>}

Vacio == <<>>

\* a classification as the classifier documents it
ClasificacionBase ==
    [proyecto |-> Speaker, prioridad |-> "alta", resumen |-> <<"r">>,
     tipo |-> "tarea"]

\* d without key k
SinClave(d, k) == [x \in DOMAIN d \ {k} |-> d[x]]

\* classification dicts as crear_tarea may receive them: the priority may be
\* any of the three, another string, null or absent; the project may be one
\* the field has no option for; the summary may be absent
Clasificaciones ==
    {[ClasificacionBase EXCEPT !.prioridad = v] :
        v \in PRIORIDADES \cup {"urgente", None}}
    \cup {SinClave(ClasificacionBase, "prioridad"),
          [ClasificacionBase EXCEPT !.proyecto = Nomadic],
          SinClave(ClasificacionBase, "resumen")}

\* answers of the backend to the requests of one call: create_task fails;
\* create_task succeeds and add_task_for_section fails; both succeed
Respuestas ==
    {[create |-> FALSE, add |-> FALSE], [create |-> TRUE, add |-> FALSE],
     [create |-> TRUE, add |-> TRUE]}

MessageIds == {ToString(n) : n \in 1..MaxMessageId}

NingunaLlamada ==
    [op |-> "ninguna", dedup_id |-> None, clasificacion |-> Vacio,
     nombre_seccion |-> <<>>, seccion_gid |-> None, pasos |-> <<>>,
     task_data |-> Vacio, resultado |-> "nada"]

NingunUpdate == [handler |-> "ninguno", chat |-> 0, message_id |-> 0, respuesta |-> "nada"]

NingunaResolucion == [de |-> "nada", tabla |-> <<>>, corto |-> <<>>, gid |-> None]

NingunaClasificada ==
    [hecha |-> FALSE, texto |-> <<>>, salida |-> [ok |-> FALSE], resultado |-> Vacio]

NingunDigest == [hoy |-> <<>>, resultado |-> "nada"]

NingunDone ==
    [estado |-> "END", user_data |-> Vacio, respuesta |-> "nada",
     pregunta |-> <<>>, mensaje |-> <<>>]
\* (pregunta: the task name of the last confirmation question; mensaje: the
\* last text received inside the conversation)

\* an instance that is not inside crear_tarea
NingunHilo ==
    [pc |-> "libre", dedup_id |-> None, seccion_gid |-> None, gid |-> None,
     leido |-> <<>>, solapa |-> FALSE]

\* AsanaClient.__init__ on a first run: no cache file, so the identifiers are
\* discovered; no ledger file, so it is created as "[]"
\* the client as __init__ leaves it, and a bot that handled nothing yet
Arrancado ==
    /\ ids = DiscoverAsanaIds(backend)
    /\ procesados = <<>>
    /\ ultima = NingunaLlamada
    /\ exitosas = {}
    /\ update = NingunUpdate
    /\ capturados = {}
    /\ chat_id_file = <<>>
    /\ resuelto = NingunaResolucion
    /\ llamadas = 0
    /\ ids_file = <<ids>>
    /\ clasificada = NingunaClasificada
    /\ digest = NingunDigest
    /\ done = NingunDone
    /\ hilos = <<NingunHilo, NingunHilo>>

\* the same against a project that holds no task
Construido == tareas = <<>> /\ Arrancado

Init == backend \in Backends /\ Construido

\* ------------------------------------------------------------- crear_tarea
\* AsanaClient.crear_tarea(texto, clasificacion, message_id, fuente); createOk
\* and addOk are the outcomes of the two backend requests; guardada holds the
\* fields of the created task that a later request reads back
CrearTareaCon(texto, clasificacion, message_id, fuente, createOk, addOk, guardada) ==
    LET dedup_id == DedupId(fuente, message_id)
        nombre_seccion == SeccionPorPrioridad(clasificacion)
        seccion_gid == ResolverSeccion(ids, nombre_seccion)
        task_data == TaskData(ids, texto, clasificacion, fuente)
        pasos == Pasos(seccion_gid, createOk, addOk)
        creada == Hace(pasos, "create_task", TRUE)
        movida == Hace(pasos, "add_task_for_section", TRUE)
        marcada == Hace(pasos, "marcar_procesado", TRUE)
        resultado == IF pasos[Len(pasos)].ok THEN "task" ELSE "raise"
    IN  IF YaProcesado(procesados, dedup_id)
        THEN /\ ultima' = [NingunaLlamada EXCEPT !.op = "crear_tarea",
                                                 !.dedup_id = dedup_id,
                                                 !.resultado = "None"]
             /\ UNCHANGED <<tareas, procesados, exitosas>>
        ELSE /\ tareas' =
                    IF creada
                    THEN Append(tareas,
                            guardada @@
                            [gid |-> "t" \o ToString(Len(tareas) + 1),
                             seccion |-> IF movida THEN seccion_gid ELSE None,
                             completed |-> FALSE,
                             origen |-> dedup_id])
                    ELSE tareas
             /\ procesados' =
                    IF marcada THEN MarcarProcesado(procesados, dedup_id)
                    ELSE procesados
             /\ exitosas' =
                    IF resultado = "task" THEN exitosas \cup {dedup_id}
                    ELSE exitosas
             /\ ultima' = [op |-> "crear_tarea", dedup_id |-> dedup_id,
                           clasificacion |-> clasificacion,
                           nombre_seccion |-> nombre_seccion,
                           seccion_gid |-> seccion_gid, pasos |-> pasos,
                           task_data |-> task_data, resultado |-> resultado]

\* the same where no later request reads the task's name, notes or fields:
\* the task is kept by gid, section, completion and origin
CrearTareaLlamada(texto, clasificacion, message_id, fuente, createOk, addOk) ==
    CrearTareaCon(texto, clasificacion, message_id, fuente, createOk, addOk, <<>>)

\* a direct call of the client with any arguments
CrearTarea ==
    /\ llamadas < MaxCalls
    /\ \E texto \in Textos, clasificacion \in Clasificaciones,
          message_id \in MessageIds, fuente \in FUENTES, r \in Respuestas :
            CrearTareaLlamada(texto, clasificacion, message_id, fuente,
                              r.create, r.add)
    /\ llamadas' = llamadas + 1
    /\ UNCHANGED <<backend, ids, update, capturados, chat_id_file, resuelto,
                   ids_file, clasificada, digest, done, hilos>>

Next == CrearTarea

Spec == Init /\ [][Next]_vars

\* ------------------------------------------------------ properties, crear_tarea
\* a step of the behaviour that is a crear_tarea call
EsLlamadaCrear == llamadas' = llamadas + 1 /\ ultima'.op = "crear_tarea"

TareasDe(k) == {i \in 1..Len(tareas) : tareas[i].origen = k}

\* the section name the priority stands for: alta -> Hoy, media -> Semana,
\* baja -> Backlog, anything else (other string, null, no key) -> Semana
SeccionEsperada(clasificacion) ==
    IF "prioridad" \notin DOMAIN clasificacion THEN Semana
    ELSE CASE clasificacion["prioridad"] = "alta" -> Hoy
           [] clasificacion["prioridad"] = "media" -> Semana
           [] clasificacion["prioridad"] = "baja" -> Backlog
           [] OTHER -> Semana

\* nombre reads "<anything> corto": some prefix, one space, the short name
TrasEspacio(nombre, corto) ==
    \E n \in 0..Len(nombre) : nombre = SubSeq(nombre, 1, n) \o <<" ">> \o corto

\* no cached section is named nombre or "<anything> nombre"
SinSeccion(nombre) ==
    \A i \in 1..Len(ids.secciones) :
        /\ ids.secciones[i].k # nombre
        /\ ~TrasEspacio(ids.secciones[i].k, nombre)

\* C1: once a crear_tarea call with key k has returned a task, every later
\* crear_tarea call with key k returns None, issues no backend request and
\* writes nothing to the ledger.
C1_DuplicateIsSkipped ==
    [][\A k \in exitosas :
          (EsLlamadaCrear /\ ultima'.dedup_id = k)
              => /\ ultima'.resultado = "None"
                 /\ ultima'.pasos = <<>>
                 /\ procesados' = procesados
                 /\ tareas' = tareas]_vars

C1_Witness ==
    /\ ultima.op = "crear_tarea"
    /\ ultima.resultado = "None"
    /\ ultima.dedup_id \in exitosas
    /\ Len(tareas) = 1

\* C2: executed one at a time, crear_tarea calls get at most one successful
\* create_task request per dedup key, whatever the backend answers.
C2_AtMostOncePerKey ==
    \A k \in {tareas[i].origen : i \in 1..Len(tareas)} :
        Cardinality(TareasDe(k)) <= 1

\* C3: when create_task succeeds and add_task_for_section fails, crear_tarea
\* returns the task and the key is marked as processed.
C3_MoveFailureIsTolerated ==
    (/\ ultima.op = "crear_tarea"
     /\ Hace(ultima.pasos, "create_task", TRUE)
     /\ Hace(ultima.pasos, "add_task_for_section", FALSE))
        => /\ ultima.resultado = "task"
           /\ ultima.dedup_id \in Claves(procesados)

\* C4: when the create_task request fails, crear_tarea raises, has issued that
\* one create_task request and nothing else, and the ledger and the backend's
\* tasks are as before.
C4_CreateFailurePropagates ==
    [][(EsLlamadaCrear /\ Hace(ultima'.pasos, "create_task", FALSE))
          => /\ ultima'.resultado = "raise"
             /\ ultima'.pasos = <<[op |-> "create_task", ok |-> FALSE]>>
             /\ procesados' = procesados
             /\ tareas' = tareas]_vars

C4_Witness ==
    /\ ultima.op = "crear_tarea"
    /\ Hace(ultima.pasos, "create_task", FALSE)
    /\ ultima.resultado = "raise"

\* C5: for a key not in the ledger, when the section resolves and no request
\* fails, the call issues create_task, then add_task_for_section to the section
\* of the priority, then appends the key, and only the key, to the ledger.
C5_CreateMoveMarkInOrder ==
    [][(/\ EsLlamadaCrear
        /\ ultima'.dedup_id \notin Claves(procesados)
        /\ ~SinSeccion(SeccionEsperada(ultima'.clasificacion))
        /\ \A i \in 1..Len(ultima'.pasos) : ultima'.pasos[i].ok)
          => /\ ultima'.pasos = <<[op |-> "create_task", ok |-> TRUE],
                                  [op |-> "add_task_for_section", ok |-> TRUE],
                                  [op |-> "marcar_procesado", ok |-> TRUE]>>
             /\ \E i \in 1..Len(ids.secciones) :
                    /\ ids.secciones[i].v = ultima'.seccion_gid
                    /\ \/ ids.secciones[i].k = SeccionEsperada(ultima'.clasificacion)
                       \/ TrasEspacio(ids.secciones[i].k,
                                      SeccionEsperada(ultima'.clasificacion))
             /\ procesados' = Append(procesados, ultima'.dedup_id)
             /\ Len(tareas') = Len(tareas) + 1
             /\ tareas'[Len(tareas')].seccion = ultima'.seccion_gid
             /\ ultima'.resultado = "task"]_vars

C5_Witness ==
    /\ ultima.op = "crear_tarea"
    /\ ultima.resultado = "task"
    /\ Len(ultima.pasos) = 3
    /\ procesados = <<ultima.dedup_id>>
    /\ GetOr(ultima.clasificacion, "prioridad", None) = "alta"

\* C7: when the section of the priority does not resolve, a call with a new key
\* issues one create_task request and no add_task_for_section request; when
\* that request succeeds the key is marked and the task is returned, unplaced.
C7_UnresolvedSectionStillCreates ==
    [][(/\ EsLlamadaCrear
        /\ ultima'.dedup_id \notin Claves(procesados)
        /\ SinSeccion(SeccionEsperada(ultima'.clasificacion)))
          => /\ Cuenta(ultima'.pasos, "create_task") = 1
             /\ Cuenta(ultima'.pasos, "add_task_for_section") = 0
             /\ Hace(ultima'.pasos, "create_task", TRUE)
                    => /\ ultima'.resultado = "task"
                       /\ procesados' = Append(procesados, ultima'.dedup_id)
                       /\ Len(tareas') = Len(tareas) + 1
                       /\ tareas'[Len(tareas')].seccion = None]_vars

C7_Witness ==
    /\ ultima.op = "crear_tarea"
    /\ SinSeccion(SeccionEsperada(ultima.clasificacion))
    /\ ultima.resultado = "task"
    /\ ultima.dedup_id \in Claves(procesados)
    /\ tareas[Len(tareas)].seccion = None

\* C8: the section crear_tarea targets is Hoy for alta, Semana for media,
\* Backlog for baja, and Semana for any other priority, null, or no priority.
C8_SectionFromPriority ==
    (ultima.op = "crear_tarea" /\ ultima.resultado # "None")
        => /\ ultima.nombre_seccion = SeccionEsperada(ultima.clasificacion)
           /\ Hace(ultima.pasos, "add_task_for_section", TRUE)
                => \E i \in 1..Len(ids.secciones) :
                      /\ ids.secciones[i].v = tareas[Len(tareas)].seccion
                      /\ \/ ids.secciones[i].k = SeccionEsperada(ultima.clasificacion)
                         \/ TrasEspacio(ids.secciones[i].k,
                                        SeccionEsperada(ultima.clasificacion))

C8_Witness ==
    /\ ultima.op = "crear_tarea"
    /\ "prioridad" \in DOMAIN ultima.clasificacion
    /\ ultima.clasificacion["prioridad"] = "urgente"
    /\ ultima.nombre_seccion = Semana
    /\ Hace(ultima.pasos, "add_task_for_section", TRUE)

\* C27: starting from an empty ledger, every key of the ledger was marked by
\* a crear_tarea call whose create_task request had succeeded: the task made
\* for the key exists, and within the call the mark follows the successful
\* request
C27_LedgerKeysHaveATask ==
    /\ \A k \in Claves(procesados) : TareasDe(k) # {}
    /\ ultima.op = "crear_tarea" =>
          \A j \in 1..Len(ultima.pasos) :
              ultima.pasos[j].op = "marcar_procesado" =>
                  \E i \in 1..(j - 1) :
                      ultima.pasos[i].op = "create_task" /\ ultima.pasos[i].ok

\* two keys are in the ledger, each with its task
C27_Witness ==
    /\ Cardinality(Claves(procesados)) = 2
    /\ \A k \in Claves(procesados) : Cardinality(TareasDe(k)) = 1

\* ---------------------------------------------------------------- classifier
\* the except branch with the text in place of the default summary
FallbackSinCortar(texto) ==
    [proyecto |-> Personal, prioridad |-> "media", resumen |-> texto,
     tipo |-> "nota"]

\* the except branch of clasificar_mensaje
Fallback(texto) ==
    [proyecto |-> Personal, prioridad |-> "media",
     resumen |-> IF texto # <<>> THEN Prefijo(texto, LIMITE_NOMBRE) ELSE SinClasificar,
     tipo |-> "nota"]

\* the summary is cut to LIMITE_NOMBRE characters with no ellipsis
SanitizarSinElipsis(r) ==
    LET r1 == IF "proyecto" \notin DOMAIN r \/ r["proyecto"] \notin PROYECTOS_VALIDOS
              THEN ("proyecto" :> Personal) @@ r ELSE r
        r2 == IF "prioridad" \notin DOMAIN r1 \/ r1["prioridad"] \notin PRIORIDADES
              THEN ("prioridad" :> "media") @@ r1 ELSE r1
    IN  IF "resumen" \in DOMAIN r2 /\ Len(r2["resumen"]) > LIMITE_NOMBRE
        THEN ("resumen" :> Prefijo(r2["resumen"], LIMITE_NOMBRE)) @@ r2
        ELSE r2

\* "validar y sanitizar": r is the dict parsed from the model's answer
Sanitizar(r) ==
    LET r1 == IF "proyecto" \notin DOMAIN r \/ r["proyecto"] \notin PROYECTOS_VALIDOS
              THEN ("proyecto" :> Personal) @@ r ELSE r
        r2 == IF "prioridad" \notin DOMAIN r1 \/ r1["prioridad"] \notin PRIORIDADES
              THEN ("prioridad" :> "media") @@ r1 ELSE r1
    IN  IF "resumen" \in DOMAIN r2 /\ Len(r2["resumen"]) > LIMITE_NOMBRE
        THEN ("resumen" :> (Prefijo(r2["resumen"], LIMITE_NOMBRE - 3) \o <<".", ".", ".">>)) @@ r2
        ELSE r2

Fallo == [ok |-> FALSE]

\* clasificar_mensaje(texto); salida is what the model call produced: Fallo
\* when the call or json.loads raised, else the parsed dict.  len() of a null
\* summary raises, and the log line after the validation reads
\* resultado["resumen"], so a dict without that key raises there: both end
\* in the except branch too.
ClasificarMensaje(texto, salida) ==
    IF salida = Fallo THEN Fallback(texto)
    ELSE IF "resumen" \notin DOMAIN salida.resultado THEN Fallback(texto)
    ELSE IF salida.resultado["resumen"] = Nulo THEN Fallback(texto)
    ELSE Sanitizar(salida.resultado)

\* answers of the model: a well-formed one, one with a project outside the
\* valid list, one with an unknown priority, one without a summary; or none
SalidasLLM ==
    {Fallo} \cup
    {[ok |-> TRUE, resultado |-> r] :
        r \in {ClasificacionBase,
               [ClasificacionBase EXCEPT !.proyecto = Investigar],
               [ClasificacionBase EXCEPT !.prioridad = "urgente"],
               SinClave(ClasificacionBase, "resumen")}}

\* ------------------------------------------------------------- bot handlers
\* _ensure_chat_id_persisted: writes the chat id unless the file holds it
\* already (local file writes are taken to succeed, here as for the ledger)
EnsureChatIdPersisted(chat) ==
    chat_id_file' = IF chat_id_file = <<chat>> THEN chat_id_file ELSE <<chat>>

\* the tail shared by handle_text, handle_voice and handle_audio: classify,
\* create the task under str(message_id), answer
Capturar(handler, fuente, chat, message_id, texto, salidas) ==
    /\ \E salida \in salidas, r \in Respuestas :
          /\ clasificada' = [hecha |-> TRUE, texto |-> texto, salida |-> salida,
                             resultado |-> ClasificarMensaje(texto, salida)]
          /\ CrearTareaLlamada(texto, clasificada'.resultado,
                               ToString(message_id), fuente, r.create, r.add)
    /\ update' = [handler |-> handler, chat |-> chat, message_id |-> message_id,
                  respuesta |-> CASE ultima'.resultado = "task" -> "capturado"
                                  [] ultima'.resultado = "None" -> "ya_procesado"
                                  [] OTHER -> "error"]
    /\ capturados' = IF ultima'.resultado = "task"
                     THEN capturados \cup {<<chat, message_id, handler>>}
                     ELSE capturados

\* the except branch of a voice / audio handler reached before crear_tarea:
\* the download or the transcription raised
FalloAudio(handler, chat, message_id) ==
    /\ update' = [handler |-> handler, chat |-> chat, message_id |-> message_id,
                  respuesta |-> "error"]
    /\ UNCHANGED <<tareas, procesados, ultima, exitosas, capturados, clasificada>>

\* handle_text on a message whose text is one of textos, the model answering
\* one of salidas, while fewer than tope updates were handled
HandleTextDe(textos, salidas, tope) ==
    /\ llamadas < tope
    /\ \E chat \in 1..MaxChatId, message_id \in 1..MaxMessageId,
          texto \in textos :
            /\ EnsureChatIdPersisted(chat)
            /\ Capturar("handle_text", "telegram", chat, message_id, texto, salidas)
    /\ llamadas' = llamadas + 1
    /\ UNCHANGED <<backend, ids, resuelto, ids_file, digest, done, hilos>>

\* handle_voice / handle_audio: the download or the transcription raises, or
\* the transcription is one of textos
HandleGrabacionDe(handler, fuente, textos, salidas, tope) ==
    /\ llamadas < tope
    /\ \E chat \in 1..MaxChatId, message_id \in 1..MaxMessageId :
            /\ EnsureChatIdPersisted(chat)
            /\ \/ FalloAudio(handler, chat, message_id)
               \/ \E texto \in textos :
                     Capturar(handler, fuente, chat, message_id, texto, salidas)
    /\ llamadas' = llamadas + 1
    /\ UNCHANGED <<backend, ids, resuelto, ids_file, digest, done, hilos>>

HandleText == HandleTextDe(Textos, SalidasLLM, MaxCalls)

HandleVoice ==
    HandleGrabacionDe("handle_voice", "telegram_voz", Textos, SalidasLLM, MaxCalls)

HandleAudio ==
    HandleGrabacionDe("handle_audio", "telegram_audio", Textos, SalidasLLM, MaxCalls)

NextBot == HandleText \/ HandleVoice \/ HandleAudio

\* run_bot: the client is constructed once, against a project whose sections
\* carry a glyph
InitBot ==
    /\ Init
    /\ backend.secciones =
          Listado(<<Decorado(Glifo, Hoy), Decorado(Glifo, Semana),
                    Decorado(Glifo, Backlog)>>, "s")

SpecBot == InitBot /\ [][NextBot]_vars

\* C6: two different inbound messages never share a dedup key, so a handler
\* answers "already processed" only for a message it captured before.
C6_DistinctMessagesDistinctKeys ==
    update.respuesta = "ya_procesado"
        => <<update.chat, update.message_id, update.handler>> \in capturados

\* ------------------------------------------------------------ name resolution
Otro == "@"

\* names a backend may give a section or option that stands for corto: the
\* bare name, the name behind a glyph and a space, the name glued to a glyph
Variantes(corto) ==
    {corto, Decorado(Glifo, corto), Decorado(Otro, corto), Pegado(Glifo, corto)}

\* every listing of at most MaxTabla of these names, repeated names included
Listados(nombres) == UNION {[1..n -> nombres] : n \in 0..MaxTabla}

BackendsResolver ==
    {[secciones |-> Listado(s, "s"), campo |-> "f1",
      opciones |-> Listado(o, "o"), me |-> "u1"] :
        s \in Listados(Variantes(Hoy) \cup {Semana}),
        o \in Listados(Variantes(Speaker))}

InitResolver == backend \in BackendsResolver /\ Construido

\* a call of _resolver_seccion_gid_por_nombre_corto
ResolverSeccionLlamada ==
    /\ \E corto \in {Hoy, Semana} :
          resuelto' = [de |-> "secciones", tabla |-> ids.secciones,
                       corto |-> corto, gid |-> ResolverSeccion(ids, corto)]
    /\ UNCHANGED <<backend, ids, tareas, procesados, ultima, exitosas, update,
                   capturados, chat_id_file, llamadas, ids_file, clasificada,
                   digest, done, hilos>>

\* the option lookup of crear_tarea, for the project of a classification
ResolverOpcionLlamada ==
    /\ \E proyecto \in {Speaker, Personal} :
          resuelto' = [de |-> "opciones", tabla |-> ids.opciones_proyecto,
                       corto |-> proyecto, gid |-> ResolverOpcion(ids, proyecto)]
    /\ UNCHANGED <<backend, ids, tareas, procesados, ultima, exitosas, update,
                   capturados, chat_id_file, llamadas, ids_file, clasificada,
                   digest, done, hilos>>

NextResolver == ResolverSeccionLlamada \/ ResolverOpcionLlamada

SpecResolver == InitResolver /\ [][NextResolver]_vars

\* positions of the table whose name is the short name behind a space
Sufijos(tabla, corto) ==
    {i \in 1..Len(tabla) : TrasEspacio(tabla[i].k, corto)}

Minimo(S) == CHOOSE i \in S : \A j \in S : i <= j

\* C9: when the short name is a key of the table (sections or options), the
\* answer is the identifier stored under that key, whatever other entries end
\* with a space and the short name and wherever they stand in the table.
C9_ExactMatchFirst ==
    resuelto.de # "nada"
        => \A i \in 1..Len(resuelto.tabla) :
              resuelto.tabla[i].k = resuelto.corto
                  => resuelto.gid = resuelto.tabla[i].v

C9_Witness ==
    /\ resuelto.de = "opciones"
    /\ Len(resuelto.tabla) = 2
    /\ resuelto.tabla[1].k = Decorado(Glifo, resuelto.corto)
    /\ resuelto.tabla[2].k = resuelto.corto
    /\ resuelto.gid = resuelto.tabla[2].v

\* C10: when the short name is not a key of the table, the answer is the
\* identifier of the first entry, in table order, whose name ends with a space
\* and the short name, and None when there is no such entry; a name that ends
\* with the short name without the space does not match.
C10_SuffixFallback ==
    (resuelto.de # "nada"
     /\ \A i \in 1..Len(resuelto.tabla) : resuelto.tabla[i].k # resuelto.corto)
        => IF Sufijos(resuelto.tabla, resuelto.corto) = {}
           THEN resuelto.gid = None
           ELSE resuelto.gid =
                    resuelto.tabla[Minimo(Sufijos(resuelto.tabla, resuelto.corto))].v

C10_Witness ==
    /\ resuelto.de = "secciones"
    /\ Len(resuelto.tabla) = 2
    /\ resuelto.tabla[1].k = Pegado(Glifo, resuelto.corto)
    /\ resuelto.tabla[2].k = Decorado(Otro, resuelto.corto)
    /\ resuelto.gid = resuelto.tabla[2].v

\* ------------------------------------------------------------ task payload
\* projects with and without a custom field named "Proyecto", with and
\* without a known owner
BackendsCarga ==
    {[secciones |-> Listado(s, "s"), campo |-> c,
      opciones |-> Listado(o, "o"), me |-> m] :
        s \in SeccionesBackend, o \in OpcionesBackend, c \in {"f1", None},
        m \in {"u1", None}}

\* classification dicts that differ in what decides the payload: the project
\* (an option by suffix, an option by its exact name, no option) and the due
\* date (well-formed, in another format, empty, null, absent)
ClasificacionesCarga ==
    {[proyecto |-> p, prioridad |-> "alta", resumen |-> <<"r">>,
      tipo |-> "tarea", due_date |-> f] :
        p \in {Speaker, Personal, Nomadic},
        f \in {<<"2", "0", "2", "6", "-", "0", "3", "-", "0", "5">>,
               <<"0", "5", "/", "0", "3", "/", "2", "0", "2", "6">>, <<>>, Nulo}}
    \cup {ClasificacionBase, [ClasificacionBase EXCEPT !.proyecto = Nomadic]}

InitCarga == backend \in BackendsCarga /\ Construido

\* one direct call of crear_tarea on a fresh client
CrearTareaCarga ==
    /\ llamadas < 1
    /\ \E texto \in Textos, clasificacion \in ClasificacionesCarga,
          message_id \in MessageIds, r \in Respuestas :
            CrearTareaLlamada(texto, clasificacion, message_id, "telegram",
                              r.create, r.add)
    /\ llamadas' = llamadas + 1
    /\ UNCHANGED <<backend, ids, update, capturados, chat_id_file, resuelto,
                   ids_file, clasificada, digest, done, hilos>>

NextCarga == CrearTareaCarga

SpecCarga == InitCarga /\ [][NextCarga]_vars

\* the cached options of the "Proyecto" field offer nothing for the project:
\* no option is named so, and none is named "<something> <project>"
SinOpcion(proyecto) ==
    \A i \in 1..Len(ids.opciones_proyecto) :
        /\ ids.opciones_proyecto[i].k # proyecto
        /\ ~TrasEspacio(ids.opciones_proyecto[i].k, proyecto)

\* C11: when no option of the cached "Proyecto" field matches the project of
\* the classification (by its name or behind a space), or no such field is
\* cached, the payload carries no custom field and the call goes on as for
\* any task: create_task is requested once, then the move when the section
\* resolves, then the ledger mark, and the task is returned.
C11_UnmatchedProjectStillCreates ==
    [][(EsLlamadaCrear /\ ultima'.resultado # "None"
        /\ (ids.campo_proyecto_gid = None
            \/ SinOpcion(GetOr(ultima'.clasificacion, "proyecto", Personal))))
       => /\ ultima'.task_data.custom_fields = <<>>
          /\ ultima'.pasos = Pasos(ultima'.seccion_gid,
                                   Hace(ultima'.pasos, "create_task", TRUE),
                                   Hace(ultima'.pasos, "add_task_for_section", TRUE))
          /\ Cuenta(ultima'.pasos, "create_task") = 1
          /\ ultima'.pasos[1].op = "create_task"
          /\ (ultima'.resultado = "task"
                => /\ Len(tareas') = Len(tareas) + 1
                   /\ tareas'[Len(tareas')].seccion = ultima'.seccion_gid
                   /\ YaProcesado(procesados', ultima'.dedup_id))]_vars

C11_Witness ==
    /\ ultima.op = "crear_tarea"
    /\ ultima.resultado = "task"
    /\ ids.campo_proyecto_gid # None
    /\ ultima.clasificacion["proyecto"] = Nomadic
    /\ ultima.task_data.custom_fields = <<>>
    /\ Hace(ultima.pasos, "add_task_for_section", TRUE)
    /\ Len(procesados) = 1

\* C12: the payload carries due_on only when the classification has a
\* due_date in the format YYYY-MM-DD; a missing, null or malformed due_date
\* is left out of the payload.
C12_DueDateOnlyWhenWellFormed ==
    (ultima.op = "crear_tarea" /\ ultima.resultado # "None")
        => ("due_on" \in DOMAIN ultima.task_data
              <=> FechaISO(GetOr(ultima.clasificacion, "due_date", Nulo)).ok)

\* ------------------------------------------------- one update, any summary
\* a text of n characters, no two neighbours alike
Relleno(n) == [i \in 1..n |-> ToString(i % 10)]

\* lengths around the limit of a task name
Longitudes == (LIMITE_NOMBRE - 1)..(LIMITE_NOMBRE + MaxExceso)

\* texts of a Telegram message (never empty) and transcriptions of a
\* recording (empty when nothing was said)
TextosMensaje == {Relleno(n) : n \in {4} \cup Longitudes}
Transcripciones == TextosMensaje \cup {<<>>}

\* answers of the model: summaries of every length around the limit; a field
\* outside its set, null or absent; or no answer
SalidasCaptura ==
    {Fallo} \cup
    {[ok |-> TRUE, resultado |-> r] :
        r \in {[ClasificacionBase EXCEPT !.resumen = Relleno(n)] : n \in Longitudes}
              \cup {ClasificacionBase,
                    [ClasificacionBase EXCEPT !.proyecto = Investigar],
                    SinClave(ClasificacionBase, "proyecto"),
                    [ClasificacionBase EXCEPT !.prioridad = "urgente"],
                    SinClave(ClasificacionBase, "prioridad"),
                    [ClasificacionBase EXCEPT !.tipo = "recordatorio"],
                    SinClave(ClasificacionBase, "tipo"),
                    [ClasificacionBase EXCEPT !.resumen = Nulo],
                    SinClave(ClasificacionBase, "resumen")}}

CapturaText == HandleTextDe(TextosMensaje, SalidasCaptura, 1)

CapturaVoice ==
    HandleGrabacionDe("handle_voice", "telegram_voz", Transcripciones,
                      SalidasCaptura, 1)

CapturaAudio ==
    HandleGrabacionDe("handle_audio", "telegram_audio", Transcripciones,
                      SalidasCaptura, 1)

NextCaptura == CapturaText \/ CapturaVoice \/ CapturaAudio

\* the first update a freshly started bot handles
SpecCaptura == InitBot /\ [][NextCaptura]_vars

\* the model answered with a dict that has a summary text
ConResumen(salida) ==
    /\ salida # Fallo
    /\ "resumen" \in DOMAIN salida.resultado
    /\ salida.resultado["resumen"] # Nulo

SigueConLaTarea ==
    /\ ultima.op = "crear_tarea"
    /\ ultima.clasificacion = clasificada.resultado
    /\ Cuenta(ultima.pasos, "create_task") = 1
    /\ (ultima.resultado = "task"
          => /\ Len(tareas) > 0
             /\ tareas[Len(tareas)].origen = ultima.dedup_id
             /\ update.respuesta = "capturado")

\* C14 as stated: when the model call or the parsing of its answer fails,
\* clasificar_mensaje returns proyecto "Personal", prioridad "media", tipo
\* "nota" and the first 80 characters of the text as the summary, and the
\* handler goes on to crear_tarea with it.
C14_FallbackIsTruncatedText ==
    (clasificada.hecha /\ clasificada.salida = Fallo /\ ultima.resultado # "None")
        => /\ clasificada.resultado =
                [proyecto |-> Personal, prioridad |-> "media", tipo |-> "nota",
                 resumen |-> SubSeq(clasificada.texto, 1,
                                    IF Len(clasificada.texto) < 80
                                    THEN Len(clasificada.texto) ELSE 80)]
           /\ SigueConLaTarea

\* C14, amended: when the model call or the parsing of its answer fails,
\* clasificar_mensaje returns proyecto "Personal", prioridad "media", tipo
\* "nota" and, as the summary, the first 80 characters of the text or, when
\* the text is empty, "Mensaje sin clasificar"; the handler goes on to
\* crear_tarea with it and create_task is requested.
C14_FallbackStillCreates ==
    (clasificada.hecha /\ clasificada.salida = Fallo /\ ultima.resultado # "None")
        => /\ clasificada.resultado =
                [proyecto |-> Personal, prioridad |-> "media", tipo |-> "nota",
                 resumen |-> IF clasificada.texto = <<>> THEN SinClasificar
                             ELSE SubSeq(clasificada.texto, 1,
                                         IF Len(clasificada.texto) < 80
                                         THEN Len(clasificada.texto) ELSE 80)]
           /\ SigueConLaTarea

C14_Witness ==
    /\ clasificada.hecha
    /\ clasificada.salida = Fallo
    /\ clasificada.texto = <<>>
    /\ clasificada.resultado["resumen"] = SinClasificar
    /\ ultima.resultado = "task"
    /\ Len(tareas) = 1

\* C15: every classification a handler hands to crear_tarea has a proyecto
\* of the valid list, a prioridad of alta / media / baja and a tipo of
\* tarea / idea / seguimiento / referencia / nota.
C15_ClassificationHasTheShape ==
    (clasificada.hecha /\ ultima.op = "crear_tarea" /\ ultima.resultado # "None")
        => /\ {"proyecto", "prioridad", "tipo"} \subseteq DOMAIN ultima.clasificacion
           /\ ultima.clasificacion["proyecto"] \in PROYECTOS_VALIDOS
           /\ ultima.clasificacion["prioridad"] \in {"alta", "media", "baja"}
           /\ ultima.clasificacion["tipo"] \in
                 {"tarea", "idea", "seguimiento", "referencia", "nota"}

\* ------------------------------------------------------------- text helpers
\* the characters used in names, in code point order
Caracteres ==
    <<" ", "#", "(", ")", "-", ".", "/", "0", "1", "2", "3", "4", "5", "6", "7",
      "8", "9", ":", "@", "A", "B", "C", "D", "E", "F", "G", "H", "I", "J", "K",
      "L", "M", "N", "O", "P", "Q", "R", "S", "T", "U", "V", "W", "X", "Y", "Z",
      "a", "b", "c", "d", "e", "f", "g", "h", "i", "j", "k", "l", "m", "n", "o",
      "p", "q", "r", "s", "t", "u", "v", "w", "x", "y", "z">>

Codigo(c) == CHOOSE i \in 1..Len(Caracteres) : Caracteres[i] = c

\* str.isalnum of one character
EsAlnum(c) == Codigo(c) \in (Codigo("0")..Codigo("9")) \cup
                            (Codigo("A")..Codigo("Z")) \cup
                            (Codigo("a")..Codigo("z"))

StartsWith(s, prefijo) ==
    Len(s) >= Len(prefijo) /\ SubSeq(s, 1, Len(prefijo)) = prefijo

\* s[n:]
Desde(s, n) == SubSeq(s, n + 1, Len(s))

\* str.strip, of spaces
RECURSIVE Strip(_)
Strip(s) ==
    IF s = <<>> THEN s
    ELSE IF Head(s) = " " THEN Strip(Tail(s))
    ELSE IF s[Len(s)] = " " THEN Strip(SubSeq(s, 1, Len(s) - 1))
    ELSE s

\* raw.split(" ", 1)[1], for a raw that holds a space
TrasPrimerEspacio(raw) ==
    LET i == CHOOSE k \in 1..Len(raw) :
                raw[k] = " " /\ \A j \in 1..(k - 1) : raw[j] # " "
    IN  Desde(raw, i)

\* a < b on sort keys, tuples of as many sequences of numbers, as Python
\* compares tuples and strings
MenorClave(a, b) ==
    LET MenorSec(x, y) ==
            \E k \in 1..(Len(x) + 1) :
                /\ \A j \in 1..(k - 1) : j <= Len(y) /\ x[j] = y[j]
                /\ k <= Len(y)
                /\ (k <= Len(x) => x[k] < y[k])
    IN  \E k \in 1..Len(a) :
            /\ \A j \in 1..(k - 1) : a[j] = b[j]
            /\ MenorSec(a[k], b[k])

\* a sort that leaves the list as it is
SinOrdenar(lista) == lista

\* list.sort(key=...) on entries [clave, valor]: stable, ascending
RECURSIVE Ordenar(_)
Ordenar(lista) ==
    LET RECURSIVE Insertar(_, _)
        Insertar(ordenada, x) ==
            IF ordenada = <<>> THEN <<x>>
            ELSE IF MenorClave(x.clave, Head(ordenada).clave) THEN <<x>> \o ordenada
            ELSE <<Head(ordenada)>> \o Insertar(Tail(ordenada), x)
    IN  IF lista = <<>> THEN <<>>
        ELSE Insertar(Ordenar(SubSeq(lista, 1, Len(lista) - 1)), lista[Len(lista)])

\* ----------------------------------------------------------- weekly digest
SIN_PROYECTO == <<"S", "i", "n", " ", "p", "r", "o", "y", "e", "c", "t", "o">>
CampoProyecto == <<"P", "r", "o", "y", "e", "c", "t", "o">>

\* AsanaClient._extraer_proyecto_desde_task: the option of the custom field
\* "Proyecto" without its glyph, else the "Proyecto:" line of the notes
ExtraerProyectoDesdeTask(task) ==
    LET LineaProyecto == <<"P", "r", "o", "y", "e", "c", "t", "o", ":">>
        cfs == GetOr(task, "custom_fields", <<>>)
        notas == GetOr(task, "notes", <<>>)
        es == {i \in 1..Len(cfs) : cfs[i].name = CampoProyecto}
        raw == IF es = {} THEN Nulo
               ELSE cfs[CHOOSE i \in es : \A j \in es : i <= j].raw
        desdeCampo ==
            IF ~TruthyTexto(raw) THEN SIN_PROYECTO
            ELSE IF (\E k \in 1..Len(raw) : raw[k] = " ") /\ ~EsAlnum(raw[1])
                 THEN TrasPrimerEspacio(raw)
                 ELSE raw
        ls == {i \in 1..Len(notas) : StartsWith(notas[i], LineaProyecto)}
    IN  IF desdeCampo # SIN_PROYECTO \/ ls = {} THEN desdeCampo
        ELSE Strip(Desde(notas[CHOOSE i \in ls : \A j \in ls : i <= j],
                         Len(LineaProyecto)))

\* task.get("name") or "(sin titulo)"
NombreDe(task) ==
    IF TruthyTexto(GetOr(task, "name", Nulo)) THEN task.name
    ELSE <<"(", "s", "i", "n", " ", "t", "i", "t", "u", "l", "o", ")">>

\* tasks_api.get_tasks_for_section(gid): the tasks of that section, in the
\* order of the backend
TareasDeSeccion(lista, gid) == SelectSeq(lista, LAMBDA t : t.seccion = gid)

\* the entries of the completed list, before they are sorted
Completadas(cache, lista, hoy) ==
    LET desde == MenosDias(hoy, 6)
        hecho == ResolverSeccion(cache, Hecho)
        vale(t) ==
            /\ t.completed
            /\ TruthyTexto(GetOr(t, "completed_at", Nulo))
            /\ FechaDeTimestamp(GetOr(t, "completed_at", Nulo)).ok
            /\ NoDespues(desde, FechaDeTimestamp(GetOr(t, "completed_at", Nulo)))
            /\ NoDespues(FechaDeTimestamp(GetOr(t, "completed_at", Nulo)), hoy)
        elegidas == IF Truthy(hecho)
                    THEN SelectSeq(TareasDeSeccion(lista, hecho), vale)
                    ELSE <<>>
    IN  [i \in 1..Len(elegidas) |->
            [name |-> NombreDe(elegidas[i]),
             proyecto |-> ExtraerProyectoDesdeTask(elegidas[i])]]

\* the overdue entries of one section, before they are sorted
VencidasDe(cache, lista, hoy, nombre_seccion) ==
    LET gid == ResolverSeccion(cache, nombre_seccion)
        vale(t) ==
            /\ ~t.completed
            /\ TruthyTexto(GetOr(t, "due_on", Nulo))
            /\ FechaISO(GetOr(t, "due_on", Nulo)).ok
            /\ Antes(FechaISO(GetOr(t, "due_on", Nulo)), hoy)
        elegidas == IF Truthy(gid)
                    THEN SelectSeq(TareasDeSeccion(lista, gid), vale)
                    ELSE <<>>
    IN  [i \in 1..Len(elegidas) |->
            [name |-> NombreDe(elegidas[i]),
             proyecto |-> ExtraerProyectoDesdeTask(elegidas[i]),
             due_on |-> FechaISO(elegidas[i].due_on)]]

\* a count that starts again at every entry
RECURSIVE PorProyectoDeUno(_, _, _)
PorProyectoDeUno(entradas, i, cuenta) ==
    IF i > Len(entradas) THEN cuenta
    ELSE PorProyectoDeUno(entradas, i + 1, DictSet(cuenta, entradas[i].proyecto, 1))

\* por_proyecto[proyecto] = por_proyecto.get(proyecto, 0) + 1, entry by entry
RECURSIVE PorProyecto(_, _, _)
PorProyecto(entradas, i, cuenta) ==
    IF i > Len(entradas) THEN cuenta
    ELSE LET p == entradas[i].proyecto
             n == IF HasKey(cuenta, p) THEN DictGet(cuenta, p) ELSE 0
         IN  PorProyecto(entradas, i + 1, DictSet(cuenta, p, n + 1))

\* AsanaClient.obtener_resumen_semanal(hoy), on a backend that answers
ObtenerResumenSemanalDe(cache, lista, hoy) ==
    LET completadas == Completadas(cache, lista, hoy)
        vencidas == VencidasDe(cache, lista, hoy, Hoy)
                    \o VencidasDe(cache, lista, hoy, Semana)
                    \o VencidasDe(cache, lista, hoy, Backlog)
        Codigos(t) == [i \in 1..Len(t) |-> Codigo(t[i])]
        ClaveCompletada(e) == <<Codigos(e.proyecto), Codigos(e.name)>>
        ClaveVencida(e) ==
            <<Codigos(e.proyecto), <<e.due_on.y, e.due_on.m, e.due_on.d>>,
              Codigos(e.name)>>
        Valores(l) == [i \in 1..Len(l) |-> l[i].valor]
    IN  [desde |-> MenosDias(hoy, 6),
         hasta |-> hoy,
         completadas |->
            Valores(Ordenar([i \in 1..Len(completadas) |->
                [clave |-> ClaveCompletada(completadas[i]),
                 valor |-> completadas[i]]])),
         vencidas |->
            Valores(Ordenar([i \in 1..Len(vencidas) |->
                [clave |-> ClaveVencida(vencidas[i]), valor |-> vencidas[i]]])),
         por_proyecto |-> PorProyecto(completadas, 1, <<>>)]

\* days on which the digest is asked for
Hoys == {[ok |-> TRUE, y |-> 2026, m |-> 3, d |-> 3],
         [ok |-> TRUE, y |-> 2026, m |-> 3, d |-> 4]}

\* a text that is no date
Ilegible == <<"a", "y", "e", "r">>

\* a task as the backend returns it with the opt_fields of the digest
TareaBase ==
    [gid |-> None, seccion |-> "s1", completed |-> FALSE, origen |-> None,
     name |-> Nulo,
     notes |-> <<<<"P", "r", "i", "o", "r", "i", "d", "a", "d", ":", " ", "#", " ", "a", "l", "t", "a">>,
                 <<"P", "r", "o", "y", "e", "c", "t", "o", ":", " ", "P", "e", "r", "s", "o", "n", "a", "l">>>>,
     custom_fields |-> <<[name |-> CampoProyecto, raw |-> Decorado(Glifo, Speaker)]>>,
     due_on |-> Nulo, completed_at |-> Nulo]

\* projects whose four sections resolve, and one with a section that does
\* not
BackendsResumen ==
    {[secciones |-> Listado(s, "s"), campo |-> "f1",
      opciones |-> Listado(o, "o"), me |-> "u1"] :
        s \in {<<Decorado(Glifo, Hoy), Decorado(Glifo, Semana),
                 Decorado(Glifo, Backlog), Decorado(Glifo, Hecho)>>,
               <<Hoy, Pegado(Glifo, Semana), Backlog, Hecho>>},
        o \in OpcionesBackend}

\* The "Proyecto" field of a task holds a value behind a glyph; in "Semana"
\* (s2) one of two words, in "Backlog" (s3) none.
\* tasks of the "Hecho" section (s4): completed at a day around the window
\* of the days in Hoys, at no known time or at an unreadable one; not
\* completed.  Tasks of the other sections: due at a day around today,
\* never, or at an unreadable date; a completed one.  Tasks whose project
\* has to come from the notes, or from nowhere.
Plantillas ==
    LET Hora == <<"T", "2", "3", ":", "5", "9", ":", "5", "9", ".", "0", "0", "0", "Z">>
        Ayer2 == <<"2", "0", "2", "6", "-", "0", "3", "-", "0", "2">>
        DiasTarea ==
            {<<"2", "0", "2", "6", "-", "0", "2", "-", "2", "4">>,
             <<"2", "0", "2", "6", "-", "0", "2", "-", "2", "5">>,
             Ayer2,
             <<"2", "0", "2", "6", "-", "0", "3", "-", "0", "3">>,
             <<"2", "0", "2", "6", "-", "0", "3", "-", "0", "4">>}
    IN  {[TareaBase EXCEPT !.seccion = "s4", !.completed = TRUE, !.completed_at = c] :
            c \in {d \o Hora : d \in DiasTarea} \cup {Nulo, Ilegible}}
        \cup {[TareaBase EXCEPT !.seccion = "s4", !.completed_at = Ayer2 \o Hora],
              [TareaBase EXCEPT !.seccion = "s4", !.due_on = Ayer2]}
        \cup {[TareaBase EXCEPT !.seccion = g, !.due_on = f,
                                 !.custom_fields[1].raw =
                                     CASE g = "s1" -> @
                                       [] g = "s2" -> MarcaPersonal
                                       [] g = "s3" -> Nulo] :
                g \in {"s1", "s2", "s3"},
                f \in {Ayer2, <<"2", "0", "2", "6", "-", "0", "3", "-", "0", "3">>,
                       Nulo, Ilegible}}
        \cup {[TareaBase EXCEPT !.completed = TRUE, !.due_on = Ayer2,
                                !.completed_at = Ayer2 \o Hora],
              [TareaBase EXCEPT !.custom_fields = <<>>, !.due_on = Ayer2],
              [TareaBase EXCEPT !.seccion = "s4", !.completed = TRUE,
                                !.custom_fields = <<>>, !.notes = <<>>,
                                !.completed_at = Ayer2 \o Hora]}

\* the i-th task of the project gets the i-th gid and a name of its own,
\* the names running against the order of the backend
Numerar(lista) ==
    [i \in 1..Len(lista) |->
        [lista[i] EXCEPT !.gid = "t" \o ToString(i),
                         !.name = <<"t", ToString(Len(lista) - i + 1)>>]]

TareasResumen ==
    {Numerar(l) : l \in UNION {[1..n -> Plantillas] : n \in 0..MaxTareas}}

InitResumen ==
    /\ backend \in BackendsResumen
    /\ tareas \in TareasResumen
    /\ Arrancado

\* a call of obtener_resumen_semanal(hoy); a failed get_tasks_for_section
\* request propagates
ObtenerResumenSemanal ==
    /\ \E hoy \in Hoys, ok \in BOOLEAN :
          digest' = IF ok
                    THEN [hoy |-> hoy, backend_ok |-> TRUE, resultado |-> "dict"]
                         @@ ObtenerResumenSemanalDe(ids, tareas, hoy)
                    ELSE [hoy |-> hoy, backend_ok |-> FALSE, resultado |-> "raise"]
    /\ UNCHANGED <<backend, ids, tareas, procesados, ultima, exitosas, update,
                   capturados, chat_id_file, resuelto, llamadas, ids_file,
                   clasificada, done, hilos>>

NextResumen == ObtenerResumenSemanal

SpecResumen == InitResumen /\ [][NextResumen]_vars

\* days from 0001-01-01 to f, that day included
Ordinal(f) ==
    LET RECURSIVE DiasHasta(_)
        DiasHasta(m) == IF m = 0 THEN 0 ELSE DiasDelMes(f.y, m) + DiasHasta(m - 1)
        a == f.y - 1
    IN  365 * a + (a \div 4) - (a \div 100) + (a \div 400) + DiasHasta(f.m - 1) + f.d

\* task t sits in the section the backend lists under the short name, bare
\* or behind a glyph and a space
EnSeccion(t, corto) ==
    \E i \in 1..Len(backend.secciones) :
        /\ backend.secciones[i].gid = t.seccion
        /\ \/ backend.secciones[i].name = corto
           \/ TrasEspacio(backend.secciones[i].name, corto)

Aparece(t, entradas) == \E i \in 1..Len(entradas) : entradas[i].name = t.name

\* C16: the digest of hoy reports desde = hoy - 6 days and hasta = hoy, and
\* a task is in its completed list if and only if it is in the "Hecho"
\* section, is completed, has a completion timestamp that parses, and the
\* date d of that timestamp satisfies hoy - 6 <= d <= hoy.
C16_CompletedWindow ==
    digest.resultado = "dict" =>
        /\ Ordinal(digest.hoy) - Ordinal(digest.desde) = 6
        /\ digest.hasta = digest.hoy
        /\ \A i \in 1..Len(tareas) :
              Aparece(tareas[i], digest.completadas)
                <=> /\ EnSeccion(tareas[i], Hecho)
                    /\ tareas[i].completed
                    /\ tareas[i].completed_at # Nulo
                    /\ FechaDeTimestamp(tareas[i].completed_at).ok
                    /\ Ordinal(digest.hoy)
                          - Ordinal(FechaDeTimestamp(tareas[i].completed_at)) \in 0..6
        /\ Len(digest.completadas) =
              Cardinality({i \in 1..Len(tareas) : Aparece(tareas[i], digest.completadas)})

C16_Witness ==
    /\ digest.resultado = "dict"
    /\ Len(tareas) = 2
    /\ Len(digest.completadas) = 1
    /\ \E i, j \in 1..Len(tareas) :
          /\ tareas[i].seccion = tareas[j].seccion
          /\ tareas[i].completed /\ tareas[j].completed
          /\ tareas[i].completed_at # Nulo /\ tareas[j].completed_at # Nulo
          /\ FechaDeTimestamp(tareas[i].completed_at).ok
          /\ FechaDeTimestamp(tareas[j].completed_at).ok
          /\ Ordinal(digest.hoy) - Ordinal(FechaDeTimestamp(tareas[i].completed_at)) = 6
          /\ Ordinal(digest.hoy) - Ordinal(FechaDeTimestamp(tareas[j].completed_at)) = 7
          /\ Aparece(tareas[i], digest.completadas)

\* C17: a task is in the overdue list of the digest if and only if it is a
\* task of section Hoy, Semana or Backlog that is not completed and whose
\* due date parses as a date strictly before hoy; a task due on hoy, one
\* with no due date and one with an unreadable due date are never in it,
\* and the digest is returned whenever the backend answers.
C17_OverdueStrictlyBefore ==
    /\ digest.resultado = "dict" =>
        /\ \A i \in 1..Len(tareas) :
              Aparece(tareas[i], digest.vencidas)
                <=> /\ \E corto \in {Hoy, Semana, Backlog} : EnSeccion(tareas[i], corto)
                    /\ ~tareas[i].completed
                    /\ tareas[i].due_on # Nulo
                    /\ FechaISO(tareas[i].due_on).ok
                    /\ Ordinal(FechaISO(tareas[i].due_on)) < Ordinal(digest.hoy)
        /\ Len(digest.vencidas) =
              Cardinality({i \in 1..Len(tareas) : Aparece(tareas[i], digest.vencidas)})
    /\ (digest.resultado # "nada" /\ digest.backend_ok) => digest.resultado = "dict"

C17_Witness ==
    /\ digest.resultado = "dict"
    /\ Len(tareas) = 2
    /\ Len(digest.vencidas) = 1
    /\ \E i, j \in 1..Len(tareas) :
          /\ ~tareas[i].completed /\ ~tareas[j].completed
          /\ tareas[i].seccion = tareas[j].seccion
          /\ tareas[i].due_on = Ilegible
          /\ tareas[j].due_on # Nulo
          /\ FechaISO(tareas[j].due_on).ok
          /\ Ordinal(FechaISO(tareas[j].due_on)) = Ordinal(digest.hoy) - 1
          /\ Aparece(tareas[j], digest.vencidas)

\* ------------------------------------------------------------ task listing
\* the glyph of the "Prioridad:" line of the notes (rest.split()[0]), else
\* the bullet
EmojiDeNotas(notes) ==
    LET LineaPrioridad == <<"P", "r", "i", "o", "r", "i", "d", "a", "d", ":">>
        Bala == <<"*">>
        PrimerToken(rest) ==
            LET es == {k \in 1..Len(rest) : rest[k] = " "}
            IN  IF es = {} THEN rest
                ELSE SubSeq(rest, 1, (CHOOSE k \in es : \A j \in es : k <= j) - 1)
        ls == {i \in 1..Len(notes) : StartsWith(notes[i], LineaPrioridad)}
        rest == Strip(Desde(notes[CHOOSE i \in ls : \A j \in ls : i <= j],
                            Len(LineaPrioridad)))
    IN  IF ls = {} THEN Bala
        ELSE IF rest = <<>> THEN Bala ELSE PrimerToken(rest)

\* a project taken from the "Proyecto" field alone
ProyectoSoloDeCampo(task) ==
    IF task.custom_fields # <<>> /\ TruthyTexto(task.custom_fields[1].raw)
    THEN task.custom_fields[1].raw
    ELSE SIN_PROYECTO

\* the project as the loop of listar_tareas_seccion works it out: the first
\* custom field named "Proyecto" decides, its value losing a leading glyph;
\* when that leaves "Sin proyecto", the first "Proyecto:" line of the notes
ProyectoEnListado(task) ==
    LET cfs == GetOr(task, "custom_fields", <<>>)
        notas == GetOr(task, "notes", <<>>)
        RECURSIVE DelCampo(_)
        DelCampo(i) ==
            IF i > Len(cfs) THEN SIN_PROYECTO
            ELSE IF cfs[i].name # CampoProyecto THEN DelCampo(i + 1)
            ELSE IF ~TruthyTexto(cfs[i].raw) THEN SIN_PROYECTO
            ELSE IF " " \in {cfs[i].raw[k] : k \in 1..Len(cfs[i].raw)}
                    /\ ~EsAlnum(cfs[i].raw[1])
            THEN TrasPrimerEspacio(cfs[i].raw)
            ELSE cfs[i].raw
        RECURSIVE DeLasNotas(_)
        DeLasNotas(i) ==
            IF i > Len(notas) THEN SIN_PROYECTO
            ELSE IF StartsWith(notas[i], <<"P", "r", "o", "y", "e", "c", "t", "o", ":">>)
            THEN Strip(Desde(notas[i], 9))
            ELSE DeLasNotas(i + 1)
    IN  IF DelCampo(1) = SIN_PROYECTO THEN DeLasNotas(1) ELSE DelCampo(1)

\* a listing that keeps the completed tasks
ListarConCompletadas(cache, lista, nombre_seccion_corto) ==
    LET todas == TareasDeSeccion(lista, ResolverSeccion(cache, nombre_seccion_corto))
    IN  [i \in 1..Len(todas) |->
            [gid |-> todas[i].gid, emoji_prioridad |-> <<"*">>,
             proyecto |-> SIN_PROYECTO, name |-> NombreDe(todas[i]),
             seccion |-> nombre_seccion_corto]]

\* AsanaClient.listar_tareas_seccion(nombre_seccion_corto), on a backend
\* that answers: the tasks of the section that are not completed
ListarTareasSeccion(cache, lista, nombre_seccion_corto) ==
    LET gid == ResolverSeccion(cache, nombre_seccion_corto)
        abiertas == IF Truthy(gid)
                    THEN SelectSeq(TareasDeSeccion(lista, gid),
                                   LAMBDA t : ~t.completed)
                    ELSE <<>>
    IN  [i \in 1..Len(abiertas) |->
            [gid |-> abiertas[i].gid,
             emoji_prioridad |-> EmojiDeNotas(GetOr(abiertas[i], "notes", <<>>)),
             proyecto |-> ProyectoEnListado(abiertas[i]),
             name |-> NombreDe(abiertas[i]),
             seccion |-> nombre_seccion_corto]]

\* one call of listar_tareas_seccion made by `por`: the request it issues (none
\* when the section does not resolve), and what it returns or that it raises
ListarTareasSeccionLlamada(nombre_seccion_corto, por, ok) ==
    LET gid == ResolverSeccion(ids, nombre_seccion_corto)
        pasos == IF Truthy(gid)
                 THEN <<[op |-> "get_tasks_for_section", ok |-> ok]>>
                 ELSE <<>>
        raise == Hace(pasos, "get_tasks_for_section", FALSE)
    IN  [op |-> "listar_tareas_seccion", nombre_seccion |-> nombre_seccion_corto,
         por |-> por, seccion_gid |-> gid, pasos |-> pasos,
         resultado |-> IF raise THEN "raise" ELSE "list",
         lista |-> IF raise THEN <<>>
                   ELSE ListarTareasSeccion(ids, tareas, nombre_seccion_corto)]

\* ------------------------------------------------------------ completar_tarea
\* the completion timestamp the backend gives a task it completes
Momento == <<"2", "0", "2", "6", "-", "0", "3", "-", "0", "3", "T", "1", "2", ":", "0", "0", ":", "0", "0", ".", "0", "0", "0", "Z">>

\* the requests of completar_tarea, up to the first that raises: update_task,
\* then add_task_for_section when "Hecho" resolves
PasosCompletar(hecho_gid, updateOk, addOk) ==
    IF ~updateOk THEN <<[op |-> "update_task", ok |-> FALSE]>>
    ELSE IF Truthy(hecho_gid)
         THEN <<[op |-> "update_task", ok |-> TRUE],
                [op |-> "add_task_for_section", ok |-> addOk]>>
         ELSE <<[op |-> "update_task", ok |-> TRUE]>>

\* AsanaClient.completar_tarea(task_gid); por names the caller
CompletarTareaLlamada(task_gid, por, updateOk, addOk) ==
    LET hecho_gid == ResolverSeccion(ids, Hecho)
        pasos == PasosCompletar(hecho_gid, updateOk, addOk)
        completada == Hace(pasos, "update_task", TRUE)
        movida == Hace(pasos, "add_task_for_section", TRUE)
    IN  /\ tareas' =
              [i \in 1..Len(tareas) |->
                  IF tareas[i].gid # task_gid THEN tareas[i]
                  ELSE (IF completada
                        THEN "completed" :> TRUE @@ "completed_at" :> Momento
                        ELSE <<>>)
                       @@ [tareas[i] EXCEPT
                             !.seccion = IF movida THEN hecho_gid ELSE @]]
        /\ ultima' = [op |-> "completar_tarea", task_gid |-> task_gid,
                      por |-> por, seccion_gid |-> hecho_gid, pasos |-> pasos,
                      resultado |-> IF pasos[Len(pasos)].ok THEN "None" ELSE "raise"]

\* a direct call of the client for a task of the project
CompletarTarea ==
    /\ llamadas < MaxCalls
    /\ \E i \in 1..Len(tareas), r \in Respuestas :
          CompletarTareaLlamada(tareas[i].gid, "directo", r.create, r.add)
    /\ llamadas' = llamadas + 1
    /\ UNCHANGED <<backend, ids, procesados, exitosas, update, capturados,
                   chat_id_file, resuelto, ids_file, clasificada, digest, done,
                   hilos>>

\* ---------------------------------------------------------------- /done
\* str.lower
LowerDe(s) ==
    LET Lower(c) ==
            IF Codigo(c) \in Codigo("A")..Codigo("Z")
            THEN Caracteres[Codigo(c) + (Codigo("a") - Codigo("A"))]
            ELSE c
    IN  [i \in 1..Len(s) |-> Lower(s[i])]

\* the answers done_receive_confirmation takes for yes and for no (accents
\* dropped)
POSITIVOSConNo == {<<"s", "i">>, <<"s">>, <<"y", "e", "s">>, <<"y">>, <<"n", "o">>}
POSITIVOS == {<<"s", "i">>, <<"s">>, <<"y", "e", "s">>, <<"y">>}
NEGATIVOS == {<<"n", "o">>, <<"n">>}

\* what the user may send while the bot waits for the confirmation
TextosConfirmacion == {<<" ", "S", "i", " ">>, <<"N", "o">>, <<"q", "u", "i", "z", "a", "s">>}

\* user_data without the two keys of the conversation
SinDone(user_data) ==
    [k \in DOMAIN user_data \ {"done_tasks", "done_selected_task"} |-> user_data[k]]

\* cmd_done_entry, on /done with or without a search text, outside a
\* conversation; falla is the call of listar_tareas_seccion whose request
\* raises (0: none does), and an exception leaves the handler with no reply
CmdDoneEntry ==
    /\ llamadas < MaxCalls + 1
    /\ done.estado = "END"
    /\ \E texto_args \in {<<>>, <<"t">>, <<"T", "2">>, <<"x">>}, falla \in 0..3 :
          LET secciones == <<Hoy, Semana, Backlog>>
              llamada(k) == ListarTareasSeccionLlamada(secciones[k], "done", k # falla)
              lista == llamada(1).lista \o llamada(2).lista \o llamada(3).lista
              query == LowerDe(texto_args)
              Contiene(name_l) ==
                  \E k \in 1..(Len(name_l) - Len(query) + 1) :
                      SubSeq(name_l, k, k + Len(query) - 1) = query
              \* score > mejor_score, both as numerator over denominator
              Supera(i, j) ==
                  Contiene(LowerDe(lista[i].name))
                  /\ (j = 0 \/ Len(LowerDe(lista[j].name)) > Len(LowerDe(lista[i].name)))
              RECURSIVE Mejor(_, _)
              Mejor(i, j) ==
                  IF i > Len(lista) THEN j
                  ELSE Mejor(i + 1, IF Supera(i, j) THEN i ELSE j)
              mejor == Mejor(1, 0)
          IN  /\ falla # 0 => llamada(falla).resultado = "raise"
              /\ ultima' = llamada(IF falla = 0 THEN 3 ELSE falla)
              /\ done' =
                    IF falla # 0
                    THEN [done EXCEPT !.respuesta = "ninguna"]
                    ELSE IF lista = <<>>
                    THEN [done EXCEPT !.respuesta = "sin_pendientes"]
                    ELSE IF texto_args # <<>>
                    THEN IF mejor = 0
                         THEN [done EXCEPT
                                 !.user_data = ("done_tasks" :> lista) @@ @,
                                 !.respuesta = "no_encontrada"]
                         ELSE [estado |-> "CONFIRMATION",
                               user_data |->
                                  ("done_tasks" :> lista
                                   @@ "done_selected_task" :> lista[mejor])
                                  @@ done.user_data,
                               respuesta |-> "confirmar",
                               pregunta |-> lista[mejor].name,
                               mensaje |-> done.mensaje]
                    ELSE [done EXCEPT
                            !.estado = "SELECTION",
                            !.user_data = ("done_tasks" :> lista) @@ @,
                            !.respuesta = "lista"]
    /\ llamadas' = llamadas + 1
    /\ UNCHANGED <<backend, ids, tareas, procesados, exitosas, update, capturados,
                   chat_id_file, resuelto, ids_file, clasificada, digest,
                   hilos>>

\* done_receive_index, on the text of a message received in the state
\* DONE_WAITING_SELECTION; "sup2" stands for a superscript two, a digit for
\* str.isdigit on which int() raises
DoneReceiveIndex ==
    /\ llamadas < MaxCalls + 1
    /\ done.estado = "SELECTION"
    /\ \E texto \in {<<"1">>, <<" ", "2", " ">>, <<"0">>, <<"9">>, <<"x">>,
                      <<"sup2">>, <<>>} :
          LET SinSuperindice(s) ==
                  [i \in 1..Len(s) |-> IF s[i] = "sup2" THEN "2" ELSE s[i]]
              lista == GetOr(done.user_data, "done_tasks", <<>>)
              mensaje == Strip(texto)
              isdigit == mensaje # <<>> /\ SonDigitos(SinSuperindice(mensaje))
              idx == Numero(mensaje)
          IN  done' =
                IF ~isdigit
                THEN [done EXCEPT !.respuesta = "numero_invalido",
                                  !.mensaje = texto]
                ELSE IF mensaje # SinSuperindice(mensaje)
                THEN [done EXCEPT !.respuesta = "ninguna", !.mensaje = texto]
                ELSE IF idx < 1 \/ idx > Len(lista)
                THEN [done EXCEPT !.respuesta = "fuera_de_rango",
                                  !.mensaje = texto]
                ELSE [estado |-> "CONFIRMATION",
                      user_data |-> ("done_selected_task" :> lista[idx])
                                    @@ done.user_data,
                      respuesta |-> "confirmar",
                      pregunta |-> lista[idx].name,
                      mensaje |-> texto]
    /\ llamadas' = llamadas + 1
    /\ UNCHANGED <<backend, ids, tareas, procesados, ultima, exitosas, update,
                   capturados, chat_id_file, resuelto, ids_file, clasificada,
                   digest, hilos>>

\* done_receive_confirmation, on the text of a message received in the state
\* DONE_WAITING_CONFIRMATION
DoneReceiveConfirmation ==
    /\ llamadas < MaxCalls + 1
    /\ done.estado = "CONFIRMATION"
    /\ \E mensaje \in TextosConfirmacion :
          LET texto == LowerDe(Strip(mensaje))
              seleccionada == GetOr(done.user_data, "done_selected_task", Vacio)
          IN  IF seleccionada = Vacio
              THEN /\ done' = [done EXCEPT !.estado = "END",
                                           !.respuesta = "sin_seleccion",
                                           !.mensaje = mensaje]
                   /\ UNCHANGED <<tareas, ultima>>
              ELSE IF texto \in POSITIVOS
              THEN /\ \E r \in Respuestas :
                         CompletarTareaLlamada(seleccionada.gid, "done",
                                               r.create, r.add)
                   /\ done' = [done EXCEPT
                                 !.estado = "END",
                                 !.user_data = SinDone(done.user_data),
                                 !.respuesta = IF ultima'.resultado = "raise"
                                               THEN "error" ELSE "completada",
                                 !.mensaje = mensaje]
              ELSE IF texto \in NEGATIVOS
              THEN /\ done' = [done EXCEPT
                                 !.estado = "END",
                                 !.user_data = SinDone(done.user_data),
                                 !.respuesta = "cancelado",
                                 !.mensaje = mensaje]
                   /\ UNCHANGED <<tareas, ultima>>
              ELSE /\ done' = [done EXCEPT !.respuesta = "repetir",
                                           !.mensaje = mensaje]
                   /\ UNCHANGED <<tareas, ultima>>
    /\ llamadas' = llamadas + 1
    /\ UNCHANGED <<backend, ids, procesados, exitosas, update, capturados,
                   chat_id_file, resuelto, ids_file, clasificada, digest,
                   hilos>>

\* cmd_done_cancel, on /cancel inside a conversation
CmdDoneCancel ==
    /\ llamadas < MaxCalls + 1
    /\ done.estado # "END"
    /\ done' = [done EXCEPT !.estado = "END",
                            !.user_data = SinDone(done.user_data),
                            !.respuesta = "cancelado",
                            !.mensaje = <<"/", "c", "a", "n", "c", "e", "l">>]
    /\ llamadas' = llamadas + 1
    /\ UNCHANGED <<backend, ids, tareas, procesados, ultima, exitosas, update,
                   capturados, chat_id_file, resuelto, ids_file, clasificada,
                   digest, hilos>>

\* a project with the four sections, and one whose third section is neither
\* "Backlog" nor "Hecho"
BackendsDone ==
    {[secciones |-> Listado(s, "s"), campo |-> "f1",
      opciones |-> Listado(o, "o"), me |-> "u1"] :
        s \in {<<Decorado(Glifo, Hoy), Decorado(Glifo, Semana),
                 Decorado(Glifo, Backlog), Decorado(Glifo, Hecho)>>,
               <<Decorado(Glifo, Hoy), Decorado(Glifo, Semana),
                 Decorado(Glifo, Investigar)>>},
        o \in OpcionesBackend}

\* projects of up to MaxTareas tasks: open tasks of the first three
\* sections, one of them without notes, and a completed one
TareasDone ==
    LET PlantillasDone ==
            {[TareaBase EXCEPT !.seccion = "s1"],
             [TareaBase EXCEPT !.seccion = "s2", !.notes = <<>>],
             [TareaBase EXCEPT !.seccion = "s3"],
             [TareaBase EXCEPT !.completed = TRUE, !.completed_at = Momento]}
    IN  {Numerar(l) : l \in UNION {[1..n -> PlantillasDone] : n \in 1..MaxTareas}}

\* the bot of run_bot, no conversation open, on a project that holds tasks
InitDone ==
    /\ backend \in BackendsDone
    /\ tareas \in TareasDone
    /\ Arrancado

\* _cmd_listar_seccion, on /hoy or /semana
CmdListarSeccion ==
    /\ llamadas < 1
    /\ \E c \in {[handler |-> "cmd_hoy", seccion |-> Hoy],
                  [handler |-> "cmd_semana", seccion |-> Semana]},
          ok \in BOOLEAN :
          /\ ultima' = ListarTareasSeccionLlamada(c.seccion, c.handler, ok)
          /\ update' = [handler |-> c.handler, chat |-> 1, message_id |-> 1,
                        respuesta |-> IF ultima'.resultado = "raise" THEN "error"
                                      ELSE IF ultima'.lista = <<>>
                                      THEN "sin_pendientes" ELSE "lista"]
    /\ llamadas' = llamadas + 1
    /\ UNCHANGED <<backend, ids, tareas, procesados, exitosas, capturados,
                   chat_id_file, resuelto, ids_file, clasificada, digest, done,
                   hilos>>

\* cmd_resumen, on /resumen: the digest of today, or the report that it
\* failed
CmdResumen ==
    /\ llamadas < 1
    /\ EnsureChatIdPersisted(1)
    /\ \E hoy \in Hoys, ok \in BOOLEAN :
          digest' = IF ok
                    THEN [hoy |-> hoy, backend_ok |-> TRUE, resultado |-> "dict"]
                         @@ ObtenerResumenSemanalDe(ids, tareas, hoy)
                    ELSE [hoy |-> hoy, backend_ok |-> FALSE, resultado |-> "raise"]
    /\ update' = [handler |-> "cmd_resumen", chat |-> 1, message_id |-> 1,
                  respuesta |-> IF digest'.resultado = "raise" THEN "error"
                                ELSE "resumen"]
    /\ llamadas' = llamadas + 1
    /\ UNCHANGED <<backend, ids, tareas, procesados, ultima, exitosas,
                   capturados, resuelto, ids_file, clasificada, done, hilos>>

\* the commands of the bot that ask the backend
SpecComandos ==
    InitDone /\ [][CmdListarSeccion \/ CmdResumen \/ CmdDoneEntry]_vars

\* the handler that took the step, the reply it sent ("ninguna": it sent
\* none) and whether a backend request of it failed
Paso ==
    IF update' # update
    THEN [handler |-> update'.handler, respuesta |-> update'.respuesta,
          fallo |-> IF update'.handler = "cmd_resumen"
                    THEN digest'.resultado = "raise"
                    ELSE ultima'.resultado = "raise",
          pasos |-> IF update'.handler = "cmd_resumen" THEN <<>> ELSE ultima'.pasos]
    ELSE IF done.estado = "END"
    THEN [handler |-> "cmd_done_entry", respuesta |-> done'.respuesta,
          fallo |-> ultima'.resultado = "raise", pasos |-> ultima'.pasos]
    ELSE [handler |-> "done_receive_confirmation", respuesta |-> done'.respuesta,
          fallo |-> ultima' # ultima /\ ultima'.resultado = "raise",
          pasos |-> IF ultima' # ultima THEN ultima'.pasos ELSE <<>>]

\* C22: in /hoy, /semana, /done entry, /done confirmation and /resumen, a
\* backend request that fails makes the handler send a failure message to
\* the chat, and the failed request is issued once
C22_BackendFailureIsReported ==
    [][(llamadas' # llamadas /\ Paso.fallo) =>
            /\ Paso.respuesta = "error"
            /\ Cardinality({i \in 1..Len(Paso.pasos) : ~Paso.pasos[i].ok}) <= 1]_vars

\* C22 without /done entry
C22_OtherHandlersReport ==
    [][(llamadas' # llamadas /\ Paso.fallo /\ Paso.handler # "cmd_done_entry") =>
            /\ Paso.respuesta = "error"
            /\ Cardinality({i \in 1..Len(Paso.pasos) : ~Paso.pasos[i].ok}) <= 1]_vars

NextDone ==
    \/ CmdDoneEntry
    \/ DoneReceiveIndex
    \/ DoneReceiveConfirmation
    \/ CmdDoneCancel

SpecDone == InitDone /\ [][NextDone]_vars

\* the task of gid g is completed
Completa(lista, g) == \E i \in 1..Len(lista) : lista[i].gid = g /\ lista[i].completed

\* C18: completar_tarea first sets the task completed and then, when "Hecho"
\* resolves, requests the move into it; once the task is set completed the
\* call returns normally whatever becomes of the move, the task stays
\* completed, and /done answers that the task was completed, not an error.
C18_MoveFailureAfterCompleteIsNotFatal ==
    [][(ultima'.op = "completar_tarea" /\ ultima' # ultima)
       => /\ ultima'.pasos[1].op = "update_task"
          /\ ultima'.pasos[1].ok =>
                /\ Truthy(ultima'.seccion_gid)
                      <=> /\ Len(ultima'.pasos) >= 2
                          /\ ultima'.pasos[2].op = "add_task_for_section"
                /\ Completa(tareas', ultima'.task_gid)
                /\ ultima'.resultado = "None"
                /\ ultima'.por = "done" => done'.respuesta = "completada"]_vars

\* the text handled in this step is a yes
Afirma(mensaje) ==
    LowerDe(Strip(mensaje)) \in {<<"s", "i">>, <<"s">>, <<"y", "e", "s">>, <<"y">>}

\* C29: in the /done conversation completar_tarea is called only when a
\* positive confirmation arrives in the confirmation state, with the gid of
\* the task named in the confirmation question, and the conversation ends
\* with that call (so at most one call per conversation); a negative answer,
\* /cancel or any other text completes nothing
C29_CompleteOnlyOnConfirmation ==
    [][llamadas' # llamadas =>
         IF done.estado = "CONFIRMATION" /\ Afirma(done'.mensaje)
         THEN /\ ultima'.op = "completar_tarea"
              /\ \E i \in 1..Len(done.user_data.done_tasks) :
                    /\ done.user_data.done_tasks[i].gid = ultima'.task_gid
                    /\ done.user_data.done_tasks[i].name = done.pregunta
              /\ \A i \in 1..Len(tareas) :
                    tareas[i].gid # ultima'.task_gid => tareas'[i] = tareas[i]
              /\ done'.estado = "END"
         ELSE /\ tareas' = tareas
              /\ ultima'.op = "completar_tarea" => ultima' = ultima]_vars

\* a task was completed on a "Si" answering the question about it
C29_Witness ==
    /\ done.estado = "END"
    /\ done.respuesta = "completada"
    /\ Afirma(done.mensaje)
    /\ ultima.op = "completar_tarea"
    /\ ultima.por = "done"
    /\ \E i \in 1..Len(tareas) :
          /\ tareas[i].gid = ultima.task_gid
          /\ tareas[i].name = done.pregunta
          /\ tareas[i].completed

\* the gids of the open tasks of the section "corto", in backend order
Abiertas(corto) ==
    LET de == SelectSeq(tareas, LAMBDA t : t.seccion = ResolverSeccion(ids, corto)
                                          /\ ~t.completed)
    IN  [i \in 1..Len(de) |-> de[i].gid]

\* the reply is a number i of 1..n, as the claim reads it: decimal digits
\* with blanks around them allowed
NumeroValido(mensaje, n) ==
    \E i \in 1..n :
        mensaje \in {<<ToString(i)>>, <<" ", ToString(i), " ">>}

\* C30: in the selection state a reply that is no number of 1..n keeps the
\* state and selects nothing; a reply i of 1..n selects the i-th task of the
\* list made at /done entry, which holds the open tasks of Hoy, then Semana,
\* then Backlog, and moves to the confirmation state
C30_SelectionByNumber ==
    [][(llamadas' # llamadas /\ done.estado = "SELECTION"
        /\ done'.mensaje # <<"/", "c", "a", "n", "c", "e", "l">>) =>
         LET lista == done.user_data.done_tasks
             gids == [i \in 1..Len(lista) |-> lista[i].gid]
         IN  /\ gids = Abiertas(Hoy) \o Abiertas(Semana) \o Abiertas(Backlog)
             /\ IF NumeroValido(done'.mensaje, Len(lista))
                THEN \E i \in 1..Len(lista) :
                        /\ done'.mensaje \in {<<ToString(i)>>, <<" ", ToString(i), " ">>}
                        /\ done'.estado = "CONFIRMATION"
                        /\ done'.user_data.done_selected_task = lista[i]
                        /\ done'.pregunta = lista[i].name
                ELSE /\ done'.estado = "SELECTION"
                     /\ "done_selected_task" \notin DOMAIN done'.user_data]_vars

\* the second task of the list, a task of "Semana" after one of "Hoy", was
\* selected by its number
C30_Witness ==
    /\ done.estado = "CONFIRMATION"
    /\ done.mensaje = <<" ", "2", " ">>
    /\ Len(done.user_data.done_tasks) = 2
    /\ done.user_data.done_selected_task = done.user_data.done_tasks[2]
    /\ done.user_data.done_tasks[1].seccion = Hoy
    /\ done.user_data.done_tasks[2].seccion = Semana

\* the conversation data of /done is gone from user_data
DoneLimpio ==
    /\ "done_tasks" \notin DOMAIN done.user_data
    /\ "done_selected_task" \notin DOMAIN done.user_data

\* C31: whenever the /done conversation is over (its state is END), user_data
\* holds neither done_tasks nor done_selected_task
C31_EndClearsConversationData == done.estado = "END" => DoneLimpio

\* C31, for the ends other than the one of a search without a match: a step
\* that ends the conversation on a confirmation, a refusal or /cancel removes
\* both keys, and an entry that finds nothing pending adds none
C31_OtherEndsClear ==
    [][/\ (done.estado # "END" /\ done'.estado = "END"
            /\ done'.respuesta # "sin_seleccion") =>
              /\ "done_tasks" \notin DOMAIN done'.user_data
              /\ "done_selected_task" \notin DOMAIN done'.user_data
       /\ (done.estado = "END" /\ done'.respuesta \in {"sin_pendientes", "ninguna"}) =>
              done'.user_data = done.user_data]_vars

\* a search that matched no task ended the conversation with done_tasks set
C31_NoMatchKeepsTheList ==
    /\ done.estado = "END"
    /\ done.respuesta = "no_encontrada"
    /\ "done_tasks" \in DOMAIN done.user_data
    /\ Len(done.user_data.done_tasks) > 0

\* C24: listar_tareas_seccion returns one entry per task of the resolved
\* section that is not completed, in the order of the backend, and when the
\* name does not resolve it returns the empty list and issues no request
C24_ListsOpenTasksOfTheSection ==
    ultima.op = "listar_tareas_seccion" =>
        IF Truthy(ResolverSeccion(ids, ultima.nombre_seccion))
        THEN /\ Len(ultima.pasos) = 1
             /\ ultima.resultado = "list" =>
                   /\ [i \in 1..Len(ultima.lista) |-> ultima.lista[i].gid]
                         = Abiertas(ultima.nombre_seccion)
                   /\ \A i \in 1..Len(ultima.lista) :
                         ultima.lista[i].seccion = ultima.nombre_seccion
        ELSE ultima.pasos = <<>> /\ ultima.lista = <<>> /\ ultima.resultado = "list"

\* a listing of a section that holds an open task and a completed one
C24_Witness ==
    /\ ultima.op = "listar_tareas_seccion"
    /\ ultima.resultado = "list"
    /\ Len(ultima.lista) = 1
    /\ \E i \in 1..Len(tareas) :
          tareas[i].seccion = ultima.seccion_gid /\ tareas[i].completed

\* a listing of a section whose name does not resolve
C24_WitnessUnresolved ==
    /\ ultima.op = "listar_tareas_seccion"
    /\ ~Truthy(ultima.seccion_gid)
    /\ \E i \in 1..Len(tareas) : tareas[i].seccion = "s3" /\ ~tareas[i].completed

\* the project of a task as the policy words it: the value of its
\* "Proyecto" field when it has one, without the glyph and the space that
\* may lead it; else what follows "Proyecto:" in the first such line of the
\* notes; else "Sin proyecto"
Politica(task) ==
    LET campos == {i \in 1..Len(task.custom_fields) :
                      task.custom_fields[i].name = CampoProyecto}
        valor == IF campos = {} THEN Nulo
                 ELSE task.custom_fields[Minimo(campos)].raw
        lineas == {i \in 1..Len(task.notes) :
                      /\ Len(task.notes[i]) >= 9
                      /\ SubSeq(task.notes[i], 1, 9) =
                            <<"P", "r", "o", "y", "e", "c", "t", "o", ":">>}
        decorado == /\ \E k \in 2..Len(valor) : valor[k] = " "
                    /\ valor[1] \in {"#", "@", "*", " "}
        primerEspacio == Minimo({k \in 1..Len(valor) : valor[k] = " "})
    IN  IF valor # Nulo /\ valor # <<>>
        THEN IF decorado THEN SubSeq(valor, primerEspacio + 1, Len(valor))
             ELSE valor
        ELSE IF lineas # {}
        THEN Strip(SubSeq(task.notes[Minimo(lineas)], 10,
                          Len(task.notes[Minimo(lineas)])))
        ELSE SIN_PROYECTO

\* C25: one project policy everywhere: for every task of the project the
\* project worked out inline by listar_tareas_seccion is the one
\* _extraer_proyecto_desde_task gives, and both are what the policy says;
\* so are the projects of the entries a listing and the digest return
C25_OneProjectPolicy ==
    /\ \A i \in 1..Len(tareas) :
          /\ ProyectoEnListado(tareas[i]) = ExtraerProyectoDesdeTask(tareas[i])
          /\ ExtraerProyectoDesdeTask(tareas[i]) = Politica(tareas[i])
    /\ \A corto \in {Hoy, Semana, Backlog, Hecho} :
          LET lista == ListarTareasSeccion(ids, tareas, corto)
          IN  \A k \in 1..Len(lista), i \in 1..Len(tareas) :
                 tareas[i].gid = lista[k].gid =>
                     lista[k].proyecto = Politica(tareas[i])
    /\ digest.resultado = "dict" =>
          \A e \in {digest.completadas[k] : k \in 1..Len(digest.completadas)}
                  \cup {[name |-> digest.vencidas[k].name,
                         proyecto |-> digest.vencidas[k].proyecto] :
                            k \in 1..Len(digest.vencidas)} :
              \A i \in 1..Len(tareas) :
                  NombreDe(tareas[i]) = e.name => e.proyecto = Politica(tareas[i])

\* a digest and a listing that both hold a task whose project comes from
\* its notes, next to one whose project comes from the field
C25_Witness ==
    /\ digest.resultado = "dict"
    /\ \E k \in 1..Len(digest.vencidas), i \in 1..Len(tareas) :
          /\ digest.vencidas[k].name = NombreDe(tareas[i])
          /\ tareas[i].custom_fields = <<>>
          /\ digest.vencidas[k].proyecto = Personal
          /\ \E l \in 1..Len(ListarTareasSeccion(ids, tareas, Hoy)) :
                /\ ListarTareasSeccion(ids, tareas, Hoy)[l].gid = tareas[i].gid
                /\ ListarTareasSeccion(ids, tareas, Hoy)[l].proyecto = Personal
    /\ \E k \in 1..Len(digest.vencidas) : digest.vencidas[k].proyecto = Speaker

\* x <= y for texts, character by character in code point order
NoMayor(x, y) ==
    \/ x = y
    \/ \E k \in 1..Len(y) :
          /\ \A j \in 1..(k - 1) : j <= Len(x) /\ x[j] = y[j]
          /\ k > Len(x) \/ Codigo(x[k]) < Codigo(y[k])

\* C26: in every digest the completed list ascends by (project, title) and
\* the overdue list ascends by (project, due date, title)
C26_DigestListsAreSorted ==
    digest.resultado = "dict" =>
        /\ \A k \in 1..(Len(digest.completadas) - 1) :
              LET a == digest.completadas[k]
                  b == digest.completadas[k + 1]
              IN  IF a.proyecto # b.proyecto THEN NoMayor(a.proyecto, b.proyecto)
                  ELSE NoMayor(a.name, b.name)
        /\ \A k \in 1..(Len(digest.vencidas) - 1) :
              LET a == digest.vencidas[k]
                  b == digest.vencidas[k + 1]
              IN  IF a.proyecto # b.proyecto THEN NoMayor(a.proyecto, b.proyecto)
                  ELSE IF a.due_on # b.due_on
                  THEN Ordinal(a.due_on) < Ordinal(b.due_on)
                  ELSE NoMayor(a.name, b.name)

\* a digest whose two overdue tasks, of one project and one due date, come
\* in the order of their titles, against the order of the backend
C26_Witness ==
    /\ digest.resultado = "dict"
    /\ Len(tareas) = 2
    /\ Len(digest.vencidas) = 2
    /\ digest.vencidas[1].proyecto = digest.vencidas[2].proyecto
    /\ digest.vencidas[1].due_on = digest.vencidas[2].due_on
    /\ digest.vencidas[1].name = tareas[2].name
    /\ digest.vencidas[2].name = tareas[1].name

\* the values of a dict, added up
RECURSIVE SumaDe(_, _)
SumaDe(d, i) == IF i > Len(d) THEN 0 ELSE d[i].v + SumaDe(d, i + 1)

\* C33: in every digest por_proyecto has one key per project of the
\* completed list, its value is the number of entries of that list with the
\* project, which is at least 1, the values add up to the length of the
\* list, and a project that only overdue tasks have is no key
C33_PorProyectoCountsCompleted ==
    digest.resultado = "dict" =>
        LET d == digest.por_proyecto
            De(p, l) == {k \in 1..Len(l) : l[k].proyecto = p}
        IN  /\ \A i, j \in 1..Len(d) : d[i].k = d[j].k => i = j
            /\ \A i \in 1..Len(d) :
                  /\ d[i].v = Cardinality(De(d[i].k, digest.completadas))
                  /\ d[i].v >= 1
            /\ \A k \in 1..Len(digest.completadas) :
                  \E i \in 1..Len(d) : d[i].k = digest.completadas[k].proyecto
            /\ SumaDe(d, 1) = Len(digest.completadas)
            /\ \A k \in 1..Len(digest.vencidas) :
                  De(digest.vencidas[k].proyecto, digest.completadas) = {}
                    => \A i \in 1..Len(d) : d[i].k # digest.vencidas[k].proyecto

\* a digest that counts two completed tasks of one project
C33_Witness ==
    /\ digest.resultado = "dict"
    /\ Len(digest.completadas) = 2
    /\ Len(digest.por_proyecto) = 1
    /\ digest.por_proyecto[1].v = 2
    /\ digest.por_proyecto[1].k = digest.completadas[1].proyecto

\* a digest with a completed task of one project and an overdue task of
\* another, which por_proyecto does not name
C33_OverdueNotCounted ==
    /\ digest.resultado = "dict"
    /\ Len(digest.completadas) = 1
    /\ Len(digest.vencidas) = 1
    /\ digest.vencidas[1].proyecto # digest.completadas[1].proyecto
    /\ Len(digest.por_proyecto) = 1
    /\ digest.por_proyecto[1] = [k |-> digest.completadas[1].proyecto, v |-> 1]

\* -------------------------------------------------------- identifier cache
\* projects as they may be when a discovery runs: sections with a glyph,
\* partly without, one name twice; a "Proyecto" field or none, some of its
\* options disabled; get_user("me") answering or not
BackendsCache ==
    {[secciones |-> Listado(s, "s"), campo |-> c, opciones |-> o, me |-> m] :
        s \in SeccionesBackend \cup {<<Hoy, Semana, Hoy>>},
        c \in {"f1", None},
        o \in {<<[name |-> Decorado(Glifo, Speaker), gid |-> "o1", enabled |-> TRUE],
                 [name |-> Personal, gid |-> "o2", enabled |-> FALSE]>>,
               <<[name |-> Decorado(Glifo, Speaker), gid |-> "o1"],
                 [name |-> Nomadic, gid |-> "o3", enabled |-> TRUE]>>},
        m \in {"u1", None}}

\* cache files an earlier run may have left: none; one written by a version
\* that knew no owner; one written by this version
ArchivosPrevios ==
    {<<>>,
     <<[secciones |-> <<[k |-> Decorado(Glifo, Hecho), v |-> "s9"]>>,
        campo_proyecto_gid |-> "f1",
        opciones_proyecto |-> <<[k |-> Docencia, v |-> "o9"]>>]>>,
     <<[secciones |-> <<[k |-> Decorado(Glifo, Hecho), v |-> "s9"]>>,
        campo_proyecto_gid |-> "f1",
        opciones_proyecto |-> <<[k |-> Docencia, v |-> "o9"]>>,
        owner_user_gid |-> "u9"]>>}

\* AsanaClient.__init__ when it succeeds, whatever cache file it finds
InitCache ==
    /\ backend \in BackendsCache
    /\ \E archivo \in ArchivosPrevios :
          /\ ids = LoadOrDiscoverIds(archivo, backend, TRUE).ids
          /\ ids_file = LoadOrDiscoverIds(archivo, backend, TRUE).archivo
    /\ tareas = <<>>
    /\ procesados = <<>>
    /\ ultima = NingunaLlamada
    /\ exitosas = {}
    /\ update = NingunUpdate
    /\ capturados = {}
    /\ chat_id_file = <<>>
    /\ resuelto = NingunaResolucion
    /\ llamadas = 0
    /\ clasificada = NingunaClasificada
    /\ digest = NingunDigest
    /\ done = NingunDone
    /\ hilos = <<NingunHilo, NingunHilo>>

\* AsanaClient.refresh_ids: the file is unlinked, then loaded or discovered
RefreshIds ==
    /\ llamadas < MaxCalls
    /\ \E descubreOk \in BOOLEAN :
          LET r == LoadOrDiscoverIds(<<>>, backend, descubreOk)
          IN  /\ ids' = IF r.raise THEN ids ELSE r.ids
              /\ ids_file' = r.archivo
              /\ ultima' = [op |-> "refresh_ids", antes |-> ids,
                            descubre |-> r.descubre,
                            resultado |-> IF r.raise THEN "raise" ELSE "None"]
    /\ llamadas' = llamadas + 1
    /\ UNCHANGED <<backend, tareas, procesados, exitosas, update, capturados,
                   chat_id_file, resuelto, clasificada, digest, done, hilos>>

\* the process is started again: __init__ loads the cache file, or discovers
\* when there is none (a failed discovery ends the process at once)
Reiniciar ==
    /\ llamadas < MaxCalls
    /\ LET r == LoadOrDiscoverIds(ids_file, backend, TRUE)
       IN  /\ ids' = r.ids
           /\ ids_file' = r.archivo
           /\ ultima' = [op |-> "init", antes |-> ids, descubre |-> r.descubre,
                         resultado |-> "None"]
    /\ procesados' = InitProcesados(procesados)
    /\ llamadas' = llamadas + 1
    /\ UNCHANGED <<backend, tareas, exitosas, update, capturados,
                   chat_id_file, resuelto, clasificada, digest, done, hilos>>

\* somebody edits the project in Asana, or the requests for "me" start or
\* stop failing
CambiarBackend ==
    /\ \E b \in BackendsCache : b # backend /\ backend' = b
    /\ UNCHANGED <<ids, tareas, procesados, ultima, exitosas, update,
                   capturados, chat_id_file, resuelto, llamadas, ids_file,
                   clasificada, digest, done, hilos>>

NextCache == RefreshIds \/ Reiniciar \/ CambiarBackend

SpecCache == InitCache /\ [][NextCache]_vars

\* C19: in every state after the construction of the client, whatever loads,
\* migrations and refresh_ids calls came before and however their discovery
\* requests ended, the cache file exists and holds the ids the client has in
\* memory.
C19_CacheFileEqualsMemory == ids_file = <<ids>>

\* the table holds, for every name of the listing, the gid of the last entry
\* of that name, and nothing else
TablaDe(tabla, listado) ==
    /\ \A j \in 1..Len(listado) : \E i \in 1..Len(tabla) : tabla[i].k = listado[j].name
    /\ \A i \in 1..Len(tabla) :
          /\ \A h \in 1..Len(tabla) : tabla[h].k = tabla[i].k => h = i
          /\ \E j \in 1..Len(listado) :
                /\ listado[j].name = tabla[i].k /\ listado[j].gid = tabla[i].v
                /\ \A h \in (j + 1)..Len(listado) : listado[h].name # tabla[i].k

\* positions of the options that are enabled (or say nothing about it)
Activas(opciones) ==
    {j \in 1..Len(opciones) :
        "enabled" \in DOMAIN opciones[j] => opciones[j].enabled}

\* C20: after refresh_ids returns normally the cache, in memory and on disk,
\* holds exactly what the backend reports at that discovery: its sections,
\* the gid of the "Proyecto" field with its enabled options, and the owner;
\* nothing of the cache from before the refresh is left unless the backend
\* still reports it.
C20_RefreshHoldsCurrentBackend ==
    [][(ultima'.op = "refresh_ids" /\ llamadas' = llamadas + 1
        /\ ultima'.resultado = "None")
       => /\ ids_file' = <<ids'>>
          /\ DOMAIN ids' = {"secciones", "campo_proyecto_gid",
                            "opciones_proyecto", "owner_user_gid"}
          /\ TablaDe(ids'.secciones, backend.secciones)
          /\ ids'.campo_proyecto_gid = backend.campo
          /\ ids'.owner_user_gid = backend.me
          /\ IF backend.campo = None THEN ids'.opciones_proyecto = <<>>
             ELSE /\ Len(ids'.opciones_proyecto) = Cardinality(Activas(backend.opciones))
                  /\ \A j \in Activas(backend.opciones) :
                        \E i \in 1..Len(ids'.opciones_proyecto) :
                            /\ ids'.opciones_proyecto[i].k = backend.opciones[j].name
                            /\ ids'.opciones_proyecto[i].v = backend.opciones[j].gid]_vars

C20_Witness ==
    /\ ultima.op = "refresh_ids"
    /\ ultima.resultado = "None"
    /\ ids_file = <<ids>>
    /\ \E i \in 1..Len(ultima.antes.secciones) :
          ~HasKey(ids.secciones, ultima.antes.secciones[i].k)
    /\ \E i \in 1..Len(ultima.antes.opciones_proyecto) :
          ~HasKey(ids.opciones_proyecto, ultima.antes.opciones_proyecto[i].k)
    /\ \E j \in 1..Len(backend.opciones) :
          /\ "enabled" \in DOMAIN backend.opciones[j]
          /\ ~backend.opciones[j].enabled
          /\ ~HasKey(ids.opciones_proyecto, backend.opciones[j].name)

\* ------------------------------------------- crear_tarea, two instances
\* one step of crear_tarea in instance i, against the ledger file and the
\* backend both instances share: the ledger check (and the section lookup,
\* which touches nothing shared); the create_task request; the
\* add_task_for_section request; the read of _marcar_procesado; its write
CrearTareaPaso(i) ==
    LET h == hilos[i]
        otro == hilos[3 - i]
        mio == CHOOSE n \in 1..Len(tareas) : tareas[n].gid = h.gid
    IN  \/ /\ h.pc = "libre"
           /\ \E message_id \in MessageIds, fuente \in FUENTES,
                 clasificacion \in {ClasificacionBase,
                                    SinClave(ClasificacionBase, "prioridad")} :
                 LET dedup_id == DedupId(fuente, message_id)
                 IN  hilos' =
                       [hilos EXCEPT ![i] =
                          [pc |-> IF YaProcesado(procesados, dedup_id)
                                  THEN "fin" ELSE "create_task",
                           dedup_id |-> dedup_id,
                           seccion_gid |->
                              ResolverSeccion(ids, SeccionPorPrioridad(clasificacion)),
                           gid |-> None, leido |-> <<>>,
                           solapa |-> otro.pc \notin {"libre", "fin"}]]
           /\ UNCHANGED <<tareas, procesados>>
        \/ /\ h.pc = "create_task"
           /\ \E ok \in BOOLEAN :
                 IF ok
                 THEN /\ tareas' = Append(tareas,
                            [gid |-> "t" \o ToString(Len(tareas) + 1),
                             seccion |-> None, completed |-> FALSE,
                             origen |-> h.dedup_id])
                      /\ hilos' = [hilos EXCEPT
                            ![i].gid = "t" \o ToString(Len(tareas) + 1),
                            ![i].pc = IF Truthy(h.seccion_gid)
                                      THEN "add_task_for_section"
                                      ELSE "leer_procesados"]
                 ELSE /\ hilos' = [hilos EXCEPT ![i].pc = "fin"]
                      /\ UNCHANGED tareas
           /\ UNCHANGED procesados
        \/ /\ h.pc = "add_task_for_section"
           /\ \E ok \in BOOLEAN :
                 IF ok
                 THEN /\ tareas' = [tareas EXCEPT ![mio].seccion = h.seccion_gid]
                      /\ hilos' = [hilos EXCEPT ![i].pc = "leer_procesados"]
                 ELSE /\ hilos' = [hilos EXCEPT ![i].pc = "fin"]
                      /\ UNCHANGED tareas
           /\ UNCHANGED procesados
        \/ /\ h.pc = "leer_procesados"
           /\ hilos' = [hilos EXCEPT ![i].leido = procesados,
                                     ![i].pc = "escribir_procesados"]
           /\ UNCHANGED <<tareas, procesados>>
        \/ /\ h.pc = "escribir_procesados"
           /\ procesados' = MarcarProcesado(h.leido, h.dedup_id)
           /\ hilos' = [hilos EXCEPT ![i].pc = "fin"]
           /\ UNCHANGED tareas

\* two client instances on one ledger file, one crear_tarea call each
CrearTareaEnParalelo ==
    /\ \E i \in 1..2 : CrearTareaPaso(i)
    /\ UNCHANGED <<backend, ids, ultima, exitosas, update, capturados,
                   chat_id_file, resuelto, llamadas, ids_file, clasificada,
                   digest, done>>

SpecHilos == Init /\ [][CrearTareaEnParalelo]_vars

\* C21 (first half): when the crear_tarea calls run one at a time, no key
\* ever has two successful create_task requests
C21_SerializedCreatesOncePerKey ==
    (\A i \in 1..2 : ~hilos[i].solapa) =>
        \A n \in 1..Len(tareas) : Cardinality(TareasDe(tareas[n].origen)) <= 1

\* C21 (second half): both instances passed the ledger check for one key
\* before either marked it, no request failed, and the key has two tasks
C21_BothPassTheCheck ==
    /\ hilos[1].pc = "fin" /\ hilos[2].pc = "fin"
    /\ hilos[2].solapa
    /\ hilos[1].dedup_id = hilos[2].dedup_id
    /\ Cardinality(TareasDe(hilos[1].dedup_id)) = 2
    /\ procesados = <<hilos[1].dedup_id, hilos[1].dedup_id>>

\* ------------------------------------------------ the client, call by call
\* a direct call of listar_tareas_seccion that, when the name does not
\* resolve, discovers the identifiers again
ListarTareasRedescubre ==
    /\ llamadas < MaxCalls
    /\ \E corto \in {Hoy, Semana, Backlog, Hecho} :
          LET llamada == ListarTareasSeccionLlamada(corto, "directo", TRUE)
          IN  IF Truthy(llamada.seccion_gid)
              THEN ultima' = llamada /\ UNCHANGED <<ids, ids_file>>
              ELSE /\ ultima' = [llamada EXCEPT !.pasos =
                                    <<[op |-> "get_sections_for_project", ok |-> TRUE]>>]
                   /\ ids' = DiscoverAsanaIds(backend)
                   /\ ids_file' = <<DiscoverAsanaIds(backend)>>
    /\ llamadas' = llamadas + 1
    /\ UNCHANGED <<backend, tareas, procesados, exitosas, update, capturados,
                   chat_id_file, resuelto, clasificada, digest, done, hilos>>

\* a direct call of listar_tareas_seccion
ListarTareas ==
    /\ llamadas < MaxCalls
    /\ \E corto \in {Hoy, Semana, Backlog, Hecho}, ok \in BOOLEAN :
          ultima' = ListarTareasSeccionLlamada(corto, "directo", ok)
    /\ llamadas' = llamadas + 1
    /\ UNCHANGED <<backend, ids, tareas, procesados, exitosas, update, capturados,
                   chat_id_file, resuelto, ids_file, clasificada, digest, done,
                   hilos>>

\* a direct call of crear_tarea for a typed or spoken message of high or low
\* priority
CrearTareaCliente ==
    /\ llamadas < MaxCalls
    /\ \E texto \in Textos, prioridad \in {"alta", "baja"},
          message_id \in MessageIds, fuente \in {"telegram", "telegram_voz"},
          r \in Respuestas :
            CrearTareaLlamada(texto, [ClasificacionBase EXCEPT !.prioridad = prioridad],
                              message_id, fuente, r.create, r.add)
    /\ llamadas' = llamadas + 1
    /\ UNCHANGED <<backend, ids, update, capturados, chat_id_file, resuelto,
                   ids_file, clasificada, digest, done, hilos>>

\* a fresh client, on a project that lacks one of the sections, that is
\* called for every operation, and restarted
SpecCliente ==
    /\ Init
    /\ [][\/ CrearTareaCliente
           \/ ListarTareas
           \/ CompletarTarea
           \/ ObtenerResumenSemanal
           \/ RefreshIds
           \/ Reiniciar]_vars

\* C23: the ledger only grows: a key that _ya_procesado finds is found after
\* every later crear_tarea, listar_tareas_seccion, completar_tarea,
\* obtener_resumen_semanal and refresh_ids call and after the client is
\* constructed again on the ledger file
C23_LedgerIsAppendOnly ==
    [][\A k \in Claves(procesados) : YaProcesado(procesados', k)]_vars

\* a key marked by one call is in the ledger after a second key was marked
C23_Witness ==
    /\ Len(procesados) = 2
    /\ procesados[1] # procesados[2]
    /\ ultima.op = "crear_tarea"
    /\ ultima.dedup_id = procesados[2]

\* the operation that took the step
Operacion == IF digest' # digest THEN "obtener_resumen_semanal" ELSE ultima'.op

\* C28: the discovery requests are issued by refresh_ids and by a
\* construction that finds no cache file, and by nothing else: crear_tarea,
\* listar_tareas_seccion, completar_tarea and obtener_resumen_semanal issue
\* none and leave the identifiers in memory and the cache file as they
\* are, also when a name does not resolve
C28_DiscoveryOnlyOnInitAndRefresh ==
    [][(llamadas' # llamadas \/ digest' # digest) =>
         CASE Operacion = "refresh_ids" -> ultima'.descubre
           [] Operacion = "init" -> (ultima'.descubre <=> ids_file = <<>>)
           [] OTHER ->
                /\ Operacion \in {"crear_tarea", "listar_tareas_seccion",
                                   "completar_tarea", "obtener_resumen_semanal"}
                /\ ids' = ids
                /\ ids_file' = ids_file
                /\ Operacion # "obtener_resumen_semanal" =>
                      \A i \in 1..Len(ultima'.pasos) :
                          ultima'.pasos[i].op \in
                              {"create_task", "add_task_for_section",
                               "marcar_procesado", "get_tasks_for_section",
                               "update_task"}]_vars

\* a listing and a crear_tarea call whose section did not resolve left the
\* identifiers alone
C28_Witness ==
    /\ ultima.op \in {"listar_tareas_seccion", "crear_tarea"}
    /\ ultima.nombre_seccion = Backlog
    /\ ~Truthy(ultima.seccion_gid)
    /\ ids = DiscoverAsanaIds(backend)
    /\ ids_file = <<ids>>
    /\ llamadas = 2

\* ------------------------------------------------- created tasks, listed
\* what get_tasks_for_section returns of a task created with task_data: its
\* name, its notes, and the project's "Proyecto" field with the name of the
\* option that was set (null when none was)
TareaGuardada(proyecto_asana, task_data) ==
    LET puesta == task_data.custom_fields
        opcion == CHOOSE o \in {proyecto_asana.opciones[i] :
                                    i \in 1..Len(proyecto_asana.opciones)} :
                      o.gid = puesta[1].v
    IN  [name |-> task_data.name,
         notes |-> LineasDeNotas(task_data.notes),
         custom_fields |->
            IF proyecto_asana.campo = None THEN <<>>
            ELSE <<[name |-> CampoProyecto,
                    raw |-> IF puesta = <<>> THEN Nulo ELSE opcion.name]>>]

\* a fresh client on a project with the four sections, with or without the
\* "Proyecto" field, whose options are "# Speaker" and "Personal", or
\* "Mi Speaker" and "# Marca personal"
InitVuelta ==
    /\ backend \in
          {[secciones |-> Listado(<<Decorado(Glifo, Hoy), Decorado(Glifo, Semana),
                                    Decorado(Glifo, Backlog), Decorado(Glifo, Hecho)>>,
                                  "s"),
            campo |-> c, opciones |-> Listado(o, "o"), me |-> "u1"] :
              c \in {"f1", None},
              o \in OpcionesBackend
                     \cup {<<<<"M", "i", " ">> \o Speaker,
                             Decorado(Glifo, MarcaPersonal)>>}}
    /\ Construido

\* a direct call of crear_tarea for a classification with a valid project
\* and priority; the task keeps what the backend stores of it, and, as
\* history, the classification it was created from
CrearTareaVuelta ==
    /\ llamadas < MaxCalls
    /\ Len(tareas) < MaxTareas - 1
    /\ \E texto \in Textos, proyecto \in {Speaker, Personal, MarcaPersonal, Nomadic},
          prioridad \in PRIORIDADES, message_id \in MessageIds, r \in Respuestas :
            LET clasificacion == [ClasificacionBase EXCEPT !.proyecto = proyecto,
                                                           !.prioridad = prioridad]
            IN  CrearTareaCon(texto, clasificacion, message_id, "telegram",
                              r.create, r.add,
                              TareaGuardada(backend,
                                            TaskData(ids, texto, clasificacion,
                                                     "telegram"))
                              @@ [clasificacion |-> clasificacion])
    /\ llamadas' = llamadas + 1
    /\ UNCHANGED <<backend, ids, update, capturados, chat_id_file, resuelto,
                   ids_file, clasificada, digest, done, hilos>>

SpecVuelta == InitVuelta /\ [][CrearTareaVuelta \/ ListarTareas]_vars

\* the glyph of a priority
Glifos == [p \in PRIORIDADES |->
              CASE p = "alta" -> "rojo" [] p = "media" -> "amarillo"
                [] p = "baja" -> "verde"]

\* the listed entry of task t gives back the project and the glyph of the
\* classification t was created from
Devuelve(t) ==
    \E k \in 1..Len(ultima.lista) :
        /\ ultima.lista[k].gid = t.gid
        /\ ultima.lista[k].proyecto = t.clasificacion.proyecto
        /\ ultima.lista[k].emoji_prioridad = <<Glifos[t.clasificacion.prioridad]>>

\* a listing of a section that resolves was returned
Listada ==
    /\ ultima.op = "listar_tareas_seccion"
    /\ ultima.resultado = "list"
    /\ Truthy(ultima.seccion_gid)

\* the option that crear_tarea set is the project, or a glyph, a space and
\* the project; or none was set
OpcionExactaOConGlifo(t) ==
    \A i \in 1..Len(t.custom_fields) :
        t.custom_fields[i].raw \in {Nulo, t.clasificacion.proyecto,
                                    Decorado(Glifo, t.clasificacion.proyecto)}

\* C32: when listar_tareas_seccion returns the tasks of a section, every
\* task that crear_tarea placed there, from a classification with a valid
\* project and a priority of alta, media or baja, has an entry whose
\* proyecto is the classification's project and whose emoji_prioridad is the
\* glyph of its priority
C32_CreateListRoundTrip ==
    Listada =>
        \A i \in 1..Len(tareas) :
            tareas[i].seccion = ultima.seccion_gid => Devuelve(tareas[i])

\* C32, for a task whose option is the project itself or the project behind
\* one glyph and a space, and for a task with no option (the notes decide)
C32_RoundTripExactGlyphOrNotes ==
    Listada =>
        \A i \in 1..Len(tareas) :
            (tareas[i].seccion = ultima.seccion_gid /\ OpcionExactaOConGlifo(tareas[i]))
                => Devuelve(tareas[i])

\* a listed task whose project came from the option "# Marca personal"
C32_ListedFromGlyphOption ==
    /\ Listada
    /\ \E i \in 1..Len(tareas) :
          /\ tareas[i].seccion = ultima.seccion_gid
          /\ tareas[i].custom_fields # <<>>
          /\ tareas[i].custom_fields[1].raw = Decorado(Glifo, MarcaPersonal)
          /\ Devuelve(tareas[i])

\* a listed task whose project came from the notes, the field being empty
C32_ListedFromNotes ==
    /\ Listada
    /\ \E i \in 1..Len(tareas) :
          /\ tareas[i].seccion = ultima.seccion_gid
          /\ tareas[i].custom_fields # <<>>
          /\ tareas[i].custom_fields[1].raw = Nulo
          /\ tareas[i].clasificacion.prioridad = "baja"
          /\ Devuelve(tareas[i])
====
